---- MODULE Spec2Model ----
(***************************************************************************)
(* Fail2ban log ingestion of ServerBot: the cursor store (JSON document    *)
(* with inode, offset, updated_at), the incremental reader, and the line   *)
(* parser, as implemented in app/services/system_service.py (the async     *)
(* package) and in app/main.py (the single-file program).                  *)
(*                                                                         *)
(* Files are sequences of one-character strings.  The cursor file is       *)
(* written by a model of json.dumps and read back by a model of            *)
(* json.loads, so a torn or foreign document is a text that fails to      *)
(* parse, not a flag.                                                      *)
(***************************************************************************)
EXTENDS Integers, Sequences, FiniteSets, TLC

\* ------------------------------------------------------------------------
\* Bounds of the model
\* ------------------------------------------------------------------------
\* longest log file, in bytes
MaxLog == 3
\* scaled value of the max_read_bytes parameter (5_000_000 in the source)
MaxReadBytes == 2
\* number of cursor saves after which no further read cycle is started
MaxTime == 3
\* most words in the message part of a log line
MaxWords == 3

Min(a, b) == IF a < b THEN a ELSE b
Max(a, b) == IF a > b THEN a ELSE b

\* ------------------------------------------------------------------------
\* JSON values: tagged records; a dict is the sequence of its items in
\* insertion order
\* ------------------------------------------------------------------------
JInt(n) == [t |-> "int", v |-> n]
JStr(s) == [t |-> "str", v |-> s]
JNull == [t |-> "null", v |-> 0]
JList(xs) == [t |-> "list", v |-> xs]
JObj(items) == [t |-> "obj", v |-> items]
EmptyDoc == JObj(<< >>)

K_inode == <<"i", "n", "o", "d", "e">>
K_offset == <<"o", "f", "f", "s", "e", "t">>
K_updated_at == <<"u", "p", "d", "a", "t", "e", "d", "_", "a", "t">>

Digits == <<"0", "1", "2", "3", "4", "5", "6", "7", "8", "9">>
IsDigit(c) == \E d \in 1..10 : Digits[d] = c
DigitVal(c) == (CHOOSE d \in 1..10 : Digits[d] = c) - 1

\* str(n) for n >= 0
RECURSIVE Decimal(_)
Decimal(n) ==
    IF n < 10 THEN <<Digits[n + 1]>>
    ELSE Decimal(n \div 10) \o <<Digits[(n % 10) + 1]>>

\* str(n) for an int
IntRepr(n) == IF n < 0 THEN <<"-">> \o Decimal(0 - n) ELSE Decimal(n)

\* dict.get(key, default): the last item stored under the key
RECURSIVE GetFrom(_, _, _, _)
GetFrom(items, key, default, i) ==
    IF i = 0 THEN default
    ELSE IF items[i][1] = key THEN items[i][2]
    ELSE GetFrom(items, key, default, i - 1)

Get(d, key, default) == GetFrom(d.v, key, default, Len(d.v))

\* Python truthiness of a JSON value: `x or 0`
Truthy(x) ==
    CASE x.t = "int" -> x.v # 0
      [] x.t = "null" -> FALSE
      [] OTHER -> Len(x.v) > 0

\* ------------------------------------------------------------------------
\* json.dumps(data, ensure_ascii=False, indent=2)
\* ------------------------------------------------------------------------
EscapeChar(c) ==
    IF c = "\"" THEN <<"\\", "\"">>
    ELSE IF c = "\\" THEN <<"\\", "\\">>
    ELSE <<c>>

RECURSIVE EscapeStr(_)
EscapeStr(s) ==
    IF s = << >> THEN << >> ELSE EscapeChar(Head(s)) \o EscapeStr(Tail(s))

\* a faulty variant: strings written the way repr() writes them
Quoted_repr(s) == <<"'">> \o EscapeStr(s) \o <<"'">>

Quoted(s) == <<"\"">> \o EscapeStr(s) \o <<"\"">>

\* a scalar value of the cursor document
DumpScalar(x) ==
    CASE x.t = "int" -> IntRepr(x.v)
      [] x.t = "str" -> Quoted(x.v)
      [] OTHER -> <<"n", "u", "l", "l">>

RECURSIVE DumpItems(_, _)
DumpItems(items, i) ==
    IF i > Len(items) THEN << >>
    ELSE <<"\n", " ", " ">> \o Quoted(items[i][1]) \o <<":", " ">>
         \o DumpScalar(items[i][2])
         \o (IF i < Len(items) THEN <<",">> ELSE <<"\n">>)
         \o DumpItems(items, i + 1)

json_dumps(d) ==
    IF d.v = << >> THEN <<"{", "}">>
    ELSE <<"{">> \o DumpItems(d.v, 1) \o <<"}">>

\* ------------------------------------------------------------------------
\* json.loads(raw), for null, integers, strings, arrays and objects.
\* Every parser returns [ok, val, pos]: pos is the index after the value.
\* ------------------------------------------------------------------------
ParseFail == [ok |-> FALSE, val |-> JNull, pos |-> 0]
ParseOk(val, pos) == [ok |-> TRUE, val |-> val, pos |-> pos]

IsWs(c) == c \in {" ", "\n", "\t", "\r"}

RECURSIVE SkipWs(_, _)
SkipWs(s, i) == IF i <= Len(s) /\ IsWs(s[i]) THEN SkipWs(s, i + 1) ELSE i

\* the digits from s[i] on: [val, pos]
RECURSIVE ScanDigits(_, _, _)
ScanDigits(s, i, acc) ==
    IF i <= Len(s) /\ IsDigit(s[i])
    THEN ScanDigits(s, i + 1, 10 * acc + DigitVal(s[i]))
    ELSE [val |-> acc, pos |-> i]

\* -?(0|[1-9][0-9]*)
ParseNumber(s, i) ==
    LET neg == i <= Len(s) /\ s[i] = "-"
        j == IF neg THEN i + 1 ELSE i
        d == ScanDigits(s, j, 0)
    IN  IF d.pos = j THEN ParseFail
        ELSE IF s[j] = "0" /\ d.pos > j + 1 THEN ParseFail
        ELSE ParseOk(JInt(IF neg THEN 0 - d.val ELSE d.val), d.pos)

\* the characters up to the closing quote, s[i] being the first after the
\* opening one
RECURSIVE ScanString(_, _, _)
ScanString(s, i, acc) ==
    IF i > Len(s) THEN ParseFail
    ELSE IF s[i] = "\"" THEN ParseOk(JStr(acc), i + 1)
    ELSE IF s[i] = "\n" THEN ParseFail
    ELSE IF s[i] = "\\"
         THEN IF i + 1 <= Len(s) /\ s[i + 1] \in {"\"", "\\"}
              THEN ScanString(s, i + 2, Append(acc, s[i + 1]))
              ELSE ParseFail
    ELSE ScanString(s, i + 1, Append(acc, s[i]))

HasWord(s, i, w) == i + Len(w) - 1 <= Len(s) /\ SubSeq(s, i, i + Len(w) - 1) = w

RECURSIVE ParseValue(_, _)
RECURSIVE ParseElements(_, _, _)
RECURSIVE ParseMembers(_, _, _)

\* after "[" or ",": value, then "," or "]"
ParseElements(s, i, acc) ==
    LET r == ParseValue(s, i)
        j == SkipWs(s, r.pos)
    IN  IF ~r.ok \/ j > Len(s) THEN ParseFail
        ELSE IF s[j] = "]" THEN ParseOk(JList(Append(acc, r.val)), j + 1)
        ELSE IF s[j] = "," THEN ParseElements(s, j + 1, Append(acc, r.val))
        ELSE ParseFail

\* after "{" or ",": "key" : value, then "," or "}"
ParseMembers(s, i, acc) ==
    LET k0 == SkipWs(s, i)
        k == IF k0 <= Len(s) /\ s[k0] = "\"" THEN ScanString(s, k0 + 1, << >>)
             ELSE ParseFail
        c == SkipWs(s, k.pos)
        r == IF k.ok /\ c <= Len(s) /\ s[c] = ":" THEN ParseValue(s, c + 1)
             ELSE ParseFail
        j == SkipWs(s, r.pos)
    IN  IF ~r.ok \/ j > Len(s) THEN ParseFail
        ELSE IF s[j] = "}" THEN ParseOk(JObj(Append(acc, <<k.val.v, r.val>>)), j + 1)
        ELSE IF s[j] = "," THEN ParseMembers(s, j + 1, Append(acc, <<k.val.v, r.val>>))
        ELSE ParseFail

ParseValue(s, i0) ==
    LET i == SkipWs(s, i0)
    IN  IF i > Len(s) THEN ParseFail
        ELSE IF s[i] = "\"" THEN ScanString(s, i + 1, << >>)
        ELSE IF s[i] = "-" \/ IsDigit(s[i]) THEN ParseNumber(s, i)
        ELSE IF HasWord(s, i, <<"n", "u", "l", "l">>) THEN ParseOk(JNull, i + 4)
        ELSE IF s[i] = "["
             THEN LET j == SkipWs(s, i + 1)
                  IN  IF j <= Len(s) /\ s[j] = "]" THEN ParseOk(JList(<< >>), j + 1)
                      ELSE ParseElements(s, i + 1, << >>)
        ELSE IF s[i] = "{"
             THEN LET j == SkipWs(s, i + 1)
                  IN  IF j <= Len(s) /\ s[j] = "}" THEN ParseOk(JObj(<< >>), j + 1)
                      ELSE ParseMembers(s, i + 1, << >>)
        ELSE ParseFail

\* json.loads: one value and nothing but white space after it
json_loads(s) ==
    LET r == ParseValue(s, 1)
    IN  IF r.ok /\ SkipWs(s, r.pos) = Len(s) + 1 THEN r ELSE ParseFail

\* ------------------------------------------------------------------------
\* Cursor store
\* ------------------------------------------------------------------------
NoFile == [exists |-> FALSE, data |-> << >>]
FileOf(data) == [exists |-> TRUE, data |-> data]

\* a faulty variant: the isinstance(data, dict) test is left out
load_json_file_any(file, fault) ==
    IF ~file.exists THEN EmptyDoc
    ELSE IF fault THEN EmptyDoc
    ELSE LET r == json_loads(file.data)
         IN  IF r.ok THEN r.val ELSE EmptyDoc

\* load_json_file / _load_json_file: the document of the file, {} when the
\* file is absent, cannot be read (fault), is no JSON or is no JSON object
load_json_file(file, fault) ==
    IF ~file.exists THEN EmptyDoc
    ELSE IF fault THEN EmptyDoc
    ELSE LET r == json_loads(file.data)
         IN  IF r.ok /\ r.val.t = "obj" THEN r.val ELSE EmptyDoc

\* datetime.isoformat() of the clock value t
isoformat(t) == <<"T">> \o Decimal(t)

\* a faulty variant: the cursor carries no time of its own
new_state_undated(inode, new_offset, t) ==
    JObj(<< <<K_inode, JInt(inode)>>,
            <<K_offset, JInt(new_offset)>>,
            <<K_updated_at, JStr(isoformat(0))>> >>)

\* the dict the reader persists
new_state(inode, new_offset, t) ==
    JObj(<< <<K_inode, JInt(inode)>>,
            <<K_offset, JInt(new_offset)>>,
            <<K_updated_at, JStr(isoformat(t))>> >>)

\* int(s) for a str: optional white space, sign, digits, white space
py_int_str(s) ==
    LET i == SkipWs(s, 1)
        neg == i <= Len(s) /\ s[i] = "-"
        j == IF i <= Len(s) /\ s[i] \in {"-", "+"} THEN i + 1 ELSE i
        d == ScanDigits(s, j, 0)
    IN  IF d.pos > j /\ SkipWs(s, d.pos) = Len(s) + 1
        THEN [ok |-> TRUE, val |-> IF neg THEN 0 - d.val ELSE d.val]
        ELSE [ok |-> FALSE, val |-> 0]

\* int(x): [ok, val], ok = FALSE when int() raises
py_int(x) ==
    CASE x.t = "int" -> [ok |-> TRUE, val |-> x.v]
      [] x.t = "str" -> py_int_str(x.v)
      [] OTHER -> [ok |-> FALSE, val |-> 0]

\* int(state.get(key, 0) or 0)
IntField(state, key) ==
    LET x == Get(state, key, JInt(0))
    IN  IF Truthy(x) THEN py_int(x) ELSE [ok |-> TRUE, val |-> 0]

\* ------------------------------------------------------------------------
\* Incremental reader: the computations of _read_fail2ban_chunk_sync and
\* read_fail2ban_new_lines
\* ------------------------------------------------------------------------
\* a faulty variant: the offset is not compared with the size
reset_offset_no_truncation(offset, last_inode, inode, size) ==
    IF last_inode # 0 /\ inode # 0 /\ inode # last_inode THEN 0 ELSE offset

\* the offset after rotation and truncation detection
reset_offset(offset, last_inode, inode, size) ==
    LET o1 == IF last_inode # 0 /\ inode # 0 /\ inode # last_inode THEN 0 ELSE offset
    IN  IF o1 > size THEN 0 ELSE o1

\* a faulty variant: the backlog is never skipped
cap_offset_none(offset, size, max_read_bytes) == offset

\* the offset after the backlog cap
cap_offset(offset, size, max_read_bytes) ==
    IF size - offset > max_read_bytes THEN Max(0, size - max_read_bytes) ELSE offset

\* a faulty variant: the read starts one byte before the offset
read_chunk_early(data, offset, max_read_bytes) ==
    IF offset >= Len(data) THEN << >>
    ELSE SubSeq(data, Max(1, offset), Min(Len(data), offset + max_read_bytes))

\* f.seek(offset); f.read(max_read_bytes) on a file holding data
read_chunk(data, offset, max_read_bytes) ==
    IF offset >= Len(data) THEN << >>
    ELSE SubSeq(data, offset + 1, Min(Len(data), offset + max_read_bytes))

\* str.splitlines(): the newline-terminated records and a last unterminated one
RECURSIVE SplitFrom(_, _, _)
SplitFrom(text, i, acc) ==
    IF i > Len(text) THEN (IF acc = << >> THEN << >> ELSE <<acc>>)
    ELSE IF text[i] = "\n" THEN <<acc>> \o SplitFrom(text, i + 1, << >>)
    ELSE SplitFrom(text, i + 1, Append(acc, text[i]))

splitlines(text) == SplitFrom(text, 1, << >>)

\* ------------------------------------------------------------------------
\* Line parser: F2B_LINE_RE, _f2b_parse_time, F2B_IP_RE and the two
\* parse_fail2ban_events.  A message is text: a sequence of characters.
\* ------------------------------------------------------------------------
W_Ban == <<"B", "a", "n">>
W_Unban == <<"U", "n", "b", "a", "n">>
W_Restore == <<"R", "e", "s", "t", "o", "r", "e">>
W_Jail == <<"J", "a", "i", "l">>
W_started == <<"s", "t", "a", "r", "t", "e", "d">>
W_stopped == <<"s", "t", "o", "p", "p", "e", "d">>
W_Added == <<"A", "d", "d", "e", "d">>
W_jail == <<"j", "a", "i", "l">>
W_addr == <<"1", "0", ".", "0", ".", "0", ".", "5">>

\* the words messages are made of
Vocabulary == {W_Ban, W_Unban, W_Restore, W_Jail, W_started, W_stopped, W_Added, W_jail, W_addr}

\* " ".join(words)
RECURSIVE Join(_)
Join(ws) ==
    IF ws = << >> THEN << >>
    ELSE IF Len(ws) = 1 THEN ws[1]
    ELSE ws[1] \o <<" ">> \o Join(Tail(ws))

\* sub in text
PyIn(sub, text) ==
    \E i \in 1..(Len(text) - Len(sub) + 1) : SubSeq(text, i, i + Len(sub) - 1) = sub

\* text.startswith(prefix)
StartsWith(text, prefix) ==
    Len(text) >= Len(prefix) /\ SubSeq(text, 1, Len(prefix)) = prefix

S_Ban == W_Ban \o <<" ">>
S_Unban == W_Unban \o <<" ">>
S_RestoreBan == W_Restore \o <<" ">> \o W_Ban \o <<" ">>
P_RestoreBan == W_Restore \o <<" ">> \o W_Ban
S_JailStarted == W_Jail \o <<" ">> \o W_started
S_JailStopped == W_Jail \o <<" ">> \o W_stopped
S_AddedJail == W_Added \o <<" ">> \o W_jail \o <<" ">>
S_RemovedJail == <<"R", "e", "m", "o", "v", "e", "d", " ", "j", "a", "i", "l", " ">>

None == [some |-> FALSE, v |-> << >>]
Some(x) == [some |-> TRUE, v |-> x]

\* _f2b_parse_time on the ts group: strptime rejects a month or an hour out of
\* range; the value is the time of day in hours
f2b_parse_time(ts) ==
    IF ts.month \in 1..12 /\ ts.hour \in 0..23 THEN [ok |-> TRUE, val |-> ts.hour]
    ELSE [ok |-> FALSE, val |-> 0]

HexChars ==
    {"0", "1", "2", "3", "4", "5", "6", "7", "8", "9", "a", "b", "c", "d", "e", "f",
     "A", "B", "C", "D", "E", "F", ":"}

\* a word F2B_IP_RE matches as a whole: a dotted quad, or two or more of [0-9a-fA-F:]
IsIpWord(w) ==
    \/ Len(w) >= 2 /\ \A i \in 1..Len(w) : w[i] \in HexChars
    \/ /\ Len(w) >= 7
       /\ \A i \in 1..Len(w) : IsDigit(w[i]) \/ w[i] = "."
       /\ Cardinality({i \in 1..Len(w) : w[i] = "."}) = 3

\* the words of a text, split at spaces
RECURSIVE WordsFrom(_, _, _)
WordsFrom(text, i, acc) ==
    IF i > Len(text) THEN (IF acc = << >> THEN << >> ELSE <<acc>>)
    ELSE IF text[i] = " "
         THEN (IF acc = << >> THEN << >> ELSE <<acc>>) \o WordsFrom(text, i + 1, << >>)
    ELSE WordsFrom(text, i + 1, Append(acc, text[i]))

\* F2B_IP_RE.search(text): the first matching word
ip_search(text) ==
    LET ws == WordsFrom(text, 1, << >>)
        hits == {i \in 1..Len(ws) : IsIpWord(ws[i])}
    IN  IF hits = {} THEN None
        ELSE Some(ws[CHOOSE i \in hits : \A j \in hits : i <= j])

\* text.split(" ", n)[n].strip() for a text whose words are single-spaced
AfterWords(text, n) ==
    LET ws == WordsFrom(text, 1, << >>)
    IN  IF Len(ws) <= n THEN << >> ELSE Join(SubSeq(ws, n + 1, Len(ws)))

\* s.strip()
RECURSIVE LStrip(_)
LStrip(t) == IF t # << >> /\ IsWs(Head(t)) THEN LStrip(Tail(t)) ELSE t
RECURSIVE RStrip(_)
RStrip(t) == IF t # << >> /\ IsWs(t[Len(t)]) THEN RStrip(SubSeq(t, 1, Len(t) - 1)) ELSE t
Strip(t) == RStrip(LStrip(t))

J_sshd == <<"s", "s", "h", "d">>
J_blank == <<" ">>
J_unknown == <<"u", "n", "k", "n", "o", "w", "n">>

\* app/main.py: (m.group("jail") or "").strip() or "unknown"
main_jail(jail) == IF Strip(jail) = << >> THEN J_unknown ELSE Strip(jail)

Event(ts, jail, action, ip, raw) ==
    [ts |-> ts, jail |-> jail, action |-> action, ip |-> ip, raw |-> raw]

\* app/services/system_service.py: the action of a message
svc_action(msg) ==
    IF PyIn(W_Ban, msg) THEN "Ban"
    ELSE IF PyIn(W_Unban, msg) THEN "Unban"
    ELSE IF PyIn(P_RestoreBan, msg) THEN "Restore Ban"
    ELSE IF PyIn(S_JailStarted, msg) THEN "Jail started"
    ELSE IF PyIn(S_JailStopped, msg) THEN "Jail stopped"
    ELSE "-"

\* app/services/system_service.py: the events of one line
svc_parse_line(line) ==
    IF ~line.shape THEN << >>
    ELSE LET ts == f2b_parse_time(line.ts)
         IN  IF ~ts.ok THEN << >>
             ELSE <<Event(ts, line.jail, svc_action(line.msg), ip_search(line.msg), line)>>

\* app/main.py: the action of a message, "" when none is recognized
main_action(msg) ==
    IF StartsWith(msg, S_Ban) THEN "Ban"
    ELSE IF StartsWith(msg, S_Unban) THEN "Unban"
    ELSE IF StartsWith(msg, S_RestoreBan) THEN "Restore Ban"
    ELSE IF StartsWith(msg, S_JailStarted) THEN "Jail started"
    ELSE IF StartsWith(msg, S_JailStopped) THEN "Jail stopped"
    ELSE IF StartsWith(msg, S_AddedJail) THEN "Added jail"
    ELSE IF StartsWith(msg, S_RemovedJail) THEN "Removed jail"
    ELSE ""

\* app/main.py: the address of a message
main_ip(msg) ==
    LET a == main_action(msg)
        rest == IF a \in {"Ban", "Unban"} THEN AfterWords(msg, 1)
                ELSE IF a = "Restore Ban" THEN AfterWords(msg, 2)
                ELSE << >>
    IN  IF rest = << >> THEN None
        ELSE IF ip_search(rest).some THEN ip_search(rest)
        ELSE Some(rest)

\* app/main.py: the events of one line
main_parse_line(line) ==
    IF ~line.shape THEN << >>
    ELSE LET ts == f2b_parse_time(line.ts)
         IN  IF ~ts.ok THEN << >>
             ELSE IF main_action(line.msg) = "" THEN << >>
             ELSE <<Event(ts, main_jail(line.jail), main_action(line.msg),
                          main_ip(line.msg), line)>>

\* parse_fail2ban_events(lines_in), with the parser of one line
RECURSIVE svc_parse_fail2ban_events(_)
svc_parse_fail2ban_events(lines_in) ==
    IF lines_in = << >> THEN << >>
    ELSE svc_parse_line(Head(lines_in)) \o svc_parse_fail2ban_events(Tail(lines_in))

RECURSIVE main_parse_fail2ban_events(_)
main_parse_fail2ban_events(lines_in) ==
    IF lines_in = << >> THEN << >>
    ELSE main_parse_line(Head(lines_in)) \o main_parse_fail2ban_events(Tail(lines_in))

\* ------------------------------------------------------------------------
\* Digest builder: build_fail2ban_digest_text.  The report is the sequence
\* of its lines, joined by "\n"; a line is kept by its kind and its fields,
\* and its length is the length of the text the f-string renders.
\* ------------------------------------------------------------------------
\* [-20:] and len(bans) > 20
DigestCap == 20
\* len(out) > 3800
ReportCeiling == 3800
\* out[:3700]
ReportCut == 3700

J_nginx == <<"n", "g", "i", "n", "x">>
J_recidive == <<"r", "e", "c", "i", "d", "i", "v", "e">>
W_addr6 == <<"1", "0", ".", "0", ".", "0", ".", "6">>
W_Increase == <<"I", "n", "c", "r", "e", "a", "s", "e">>

BanActions == {"Ban", "Restore Ban"}

\* len(html_escape(s)): & becomes &amp;, < and > become &lt; and &gt;
HtmlLen(s) ==
    Len(s) + 4 * Cardinality({i \in 1..Len(s) : s[i] = "&"})
           + 3 * Cardinality({i \in 1..Len(s) : s[i] \in {"<", ">"}})

\* the characters of jail names, in code point order
CharOrder ==
    <<" ", "&", "-", "<", ">", "a", "b", "c", "d", "e", "f", "g", "h", "i", "j", "k", "l",
      "m", "n", "o", "p", "q", "r", "s", "t", "u", "v", "w", "x", "y", "z">>
CodePoint(c) == CHOOSE i \in 1..Len(CharOrder) : CharOrder[i] = c

\* a < b for str
RECURSIVE StrLess(_, _)
StrLess(a, b) ==
    IF a = << >> THEN b # << >>
    ELSE IF b = << >> THEN FALSE
    ELSE IF Head(a) = Head(b) THEN StrLess(Tail(a), Tail(b))
    ELSE CodePoint(Head(a)) < CodePoint(Head(b))

\* sorted(per_jail.keys())
RECURSIVE sorted_keys(_)
sorted_keys(keys) ==
    IF keys = {} THEN << >>
    ELSE LET least == CHOOSE x \in keys : \A y \in keys \ {x} : StrLess(x, y)
         IN  <<least>> \o sorted_keys(keys \ {least})

\* a faulty variant: the bans are left in the order they came in
sorted_by_ts_none(evs) == evs

\* sorted(bans, key=lambda e: e.ts): a stable sort, events of equal
\* timestamp keep the order they came in
RECURSIVE sorted_by_ts(_)
sorted_by_ts(evs) ==
    IF evs = << >> THEN << >>
    ELSE LET rest == sorted_by_ts(SubSeq(evs, 1, Len(evs) - 1))
             x == evs[Len(evs)]
             k == Cardinality({i \in 1..Len(rest) : rest[i].ts.val <= x.ts.val})
         IN  SubSeq(rest, 1, k) \o <<x>> \o SubSeq(rest, k + 1, Len(rest))

\* a faulty variant: the first n events are kept
last_n_first(evs, n) == IF Len(evs) > n THEN SubSeq(evs, 1, n) ELSE evs

\* evs[-n:]
last_n(evs, n) == IF Len(evs) > n THEN SubSeq(evs, Len(evs) - n + 1, Len(evs)) ELSE evs

\* one line of the report
RLine(kind, jail, n, r, ev) ==
    [k |-> kind, jail |-> jail, n |-> n, r |-> r, ts |-> ev.ts, ip |-> ev.ip,
     action |-> ev.action]
NoEv == [ts |-> [ok |-> FALSE, val |-> 0], ip |-> None, action |-> ""]

\* the number of characters of a line; a timestamp renders as 23 characters
\* ("%Y-%m-%d %H:%M:%S %Z" in the default zone)
LineLen(l) ==
    CASE l.k = "header" -> 111
      [] l.k = "none" -> 19
      [] l.k = "jail" -> 10 + HtmlLen(l.jail)
      [] l.k = "started" -> 29 + Len(Decimal(l.n))
      [] l.k = "stopped" -> 29 + Len(Decimal(l.n))
      [] l.k = "bans" -> 40 + Len(Decimal(l.n)) + Len(Decimal(l.r))
      [] l.k = "ban" -> 59 + HtmlLen(IF l.ip.some THEN l.ip.v ELSE <<"-">>)
                           + (IF l.action = "Ban" THEN 3 ELSE 11)
      [] l.k = "more" -> 29 + Len(Decimal(l.n))
      [] l.k = "unbans" -> 23 + Len(Decimal(l.n))

\* per_jail[jail][key] for the four counters
JailCount(events, jail, action) ==
    Cardinality({i \in 1..Len(events) : events[i].jail = jail /\ events[i].action = action})

\* per_jail[jail]["ban"]
JailBans(events, jail) ==
    SelectSeq(events, LAMBDA e : e.jail = jail /\ e.action \in BanActions)

\* the lines of one jail
JailSection(events, jail) ==
    LET bans == JailBans(events, jail)
        last == last_n(sorted_by_ts(bans), DigestCap)
        started == JailCount(events, jail, "Jail started")
        stopped == JailCount(events, jail, "Jail stopped")
        unban == JailCount(events, jail, "Unban")
        restore == JailCount(events, jail, "Restore Ban")
    IN  IF bans = << >> /\ unban = 0 /\ started = 0 /\ stopped = 0 THEN << >>
        ELSE <<RLine("jail", jail, 0, 0, NoEv)>>
             \o (IF started > 0 THEN <<RLine("started", jail, started, 0, NoEv)>> ELSE << >>)
             \o (IF stopped > 0 THEN <<RLine("stopped", jail, stopped, 0, NoEv)>> ELSE << >>)
             \o (IF bans # << >>
                 THEN <<RLine("bans", jail, Len(bans), restore, NoEv)>>
                      \o [i \in 1..Len(last) |-> RLine("ban", jail, 0, 0, last[i])]
                      \o (IF Len(bans) > DigestCap
                          THEN <<RLine("more", jail, Len(bans) - DigestCap, 0, NoEv)>>
                          ELSE << >>)
                 ELSE << >>)
             \o (IF unban > 0 THEN <<RLine("unbans", jail, unban, 0, NoEv)>> ELSE << >>)

RECURSIVE Sections(_, _)
Sections(events, jails) ==
    IF jails = << >> THEN << >>
    ELSE JailSection(events, Head(jails)) \o Sections(events, Tail(jails))

\* the position of the last character of line i in "\n".join(lines)
RECURSIVE EndOf(_, _)
EndOf(lines, i) ==
    IF i = 0 THEN 0 - 1 ELSE EndOf(lines, i - 1) + 1 + LineLen(lines[i])

\* a report: the lines it holds whole, the line it holds in part with the
\* number of its characters kept, and whether it ends with the notice
Report(lines, part, cut) == [lines |-> lines, part |-> part, cut |-> cut]

\* a builder without the final cap
clip_report_never(lines) == Report(lines, << >>, FALSE)

\* if len(out) > 3800: out = out[:3700] + notice
clip_report(lines) ==
    IF EndOf(lines, Len(lines)) <= ReportCeiling THEN Report(lines, << >>, FALSE)
    ELSE LET whole == CHOOSE i \in 0..Len(lines) :
                          /\ EndOf(lines, i) <= ReportCut
                          /\ i < Len(lines) => EndOf(lines, i + 1) > ReportCut
             keep == ReportCut - (EndOf(lines, whole) + 1)
         IN  Report(SubSeq(lines, 1, whole),
                    IF keep > 0 THEN <<[line |-> lines[whole + 1], keep |-> keep]>>
                    ELSE << >>,
                    TRUE)

\* build_fail2ban_digest_text(events, since, until); the window is printed
\* in the header and nowhere else
build_fail2ban_digest_text(events) ==
    LET jails == sorted_keys({events[i].jail : i \in 1..Len(events)})
        body == Sections(events, jails)
        header == RLine("header", << >>, 0, 0, NoEv)
    IN  IF body = << >> THEN Report(<<header, RLine("none", << >>, 0, 0, NoEv)>>, << >>, FALSE)
        ELSE clip_report(<<header>> \o body)

\* ------------------------------------------------------------------------
\* State
\* ------------------------------------------------------------------------
\* the coroutines that run a read cycle (daily job, a second trigger)
Procs == {1, 2}
\* inode numbers of the log file
Inodes == {1, 2}
\* the byte fail2ban writes at position k of a log file: the records "a\n"
LogByte(k) == IF k % 2 = 0 THEN "a" ELSE "\n"

VARIABLES
    impl,        \* the program that runs: "svc" (app/services, app/handlers) or "main" (app/main.py)
    down,        \* the process has been killed and not yet restarted
    logExists,   \* the log file at FAIL2BAN_LOG_PATH exists
    logInode,    \* its st_ino
    logData,     \* its bytes
    stateFile,   \* the cursor file at FAIL2BAN_STATE_PATH
    tmpFile,     \* its sibling <name>.tmp
    now,         \* the clock, read when a new cursor is built
    lock,        \* holder of FAIL2BAN_STATE_LOCK, 0 when free
    pc,          \* position of each coroutine in its read cycle
    loc,         \* locals of each coroutine's read cycle
    hist,        \* history of the run: what is known to have been undisturbed
    docs,        \* during a save and after a kill: the cursor file before the save began, and its payload
    pLines,      \* parser: the lines passed in
    pOut,        \* parser: the events returned by each of the two parse_fail2ban_events
    pPc,         \* parser: "in" before the calls, then "svc", then "out"
    rt,          \* persistence round trip: the cursor, the file written, the document loaded
    bd,          \* builder: the lines or events passed in and the two reports built
    dg,          \* digest: the job queue, the cycle of fail2ban_daily_digest, the log's mode, the last reply
    dv,          \* delivery: what the read cycles of a run have read so far, and the last cycle's outcome
    us,          \* users: the registry of authorized users and the recipients of a scheduled digest
    wn,          \* window: the clock in seconds, the stamped log and the calls of the digest builder
    pk           \* unlocked load: the position of the load of st_before and the document it got

readerVars == <<impl, down, logExists, logInode, logData, stateFile, tmpFile, now,
                lock, pc, loc, hist, docs>>
parserVars == <<pLines, pOut, pPc>>
moreVars == <<dv, us, wn, pk>>
auxVars == <<bd, dg, moreVars>>
vars == <<readerVars, parserVars, rt, auxVars>>

Loc0 ==
    [st |-> EmptyDoc, inode |-> 0, size |-> 0, last_inode |-> 0, stored |-> 0,
     offset |-> 0, lines |-> << >>, nread |-> 0, new_offset |-> 0, t |-> 0,
     read_inode |-> 0, did_read |-> FALSE, has_new |-> FALSE, saved |-> FALSE,
     raised |-> FALSE, fault |-> FALSE, raced |-> FALSE, nolog |-> FALSE]

\* the offset the reader takes from a cursor file
PersistedOffset(file) == IntField(load_json_file(file, FALSE), K_offset).val
PersistedInode(file) == IntField(load_json_file(file, FALSE), K_inode).val

\* the new cursor document of a cycle, as text
Payload(L) == json_dumps(new_state(L.inode, L.new_offset, L.t))

\* cursor files found at start: written by an earlier run, or damaged
CursorText(i, o) == json_dumps(new_state(i, o, 0))
Q == "\""
TornText == SubSeq(CursorText(1, 1), 1, 12)
ListText == <<"[", "1", "]">>
NoOffsetText == json_dumps(JObj(<< <<K_inode, JInt(1)>> >>))
StrOffsetText == json_dumps(JObj(<< <<K_inode, JInt(1)>>, <<K_offset, JStr(<<"x">>)>> >>))
NumStrOffsetText == json_dumps(JObj(<< <<K_inode, JInt(1)>>, <<K_offset, JStr(<<"1">>)>> >>))
NullFieldsText == json_dumps(JObj(<< <<K_inode, JNull>>, <<K_offset, JNull>> >>))
ListInodeText == <<"{", Q>> \o K_inode \o <<Q, ":", "[", "1", "]", "}">>

DamagedTexts ==
    {<< >>, TornText, ListText, <<"7">>, NoOffsetText, StrOffsetText, NumStrOffsetText,
     NullFieldsText, ListInodeText}

InitOffsets == {0 - MaxLog, 0 - 1, 1, MaxLog + 1}

InitCursorFiles ==
    {NoFile}
    \cup {FileOf(CursorText(i, o)) : i \in Inodes, o \in InitOffsets}
    \cup {FileOf(x) : x \in DamagedTexts}

\* no save is in progress
NoDocs == [prev |-> NoFile, new |-> NoFile]

ReaderInit ==
    /\ impl \in {"svc", "main"}
    /\ down = FALSE
    /\ logExists = TRUE
    /\ logInode = 1
    /\ logData = << >>
    /\ stateFile \in InitCursorFiles
    /\ tmpFile = NoFile
    /\ now = 1
    /\ lock = 0
    /\ pc = [p \in Procs |-> "idle"]
    /\ loc = [p \in Procs |-> Loc0]
    /\ hist = [settled |-> FALSE, clean |-> TRUE, covered |-> {}, dup |-> FALSE]
    /\ docs = NoDocs

NoEvents == [svc |-> << >>, main |-> << >>]
ParserIdle == pLines = << >> /\ pOut = NoEvents /\ pPc = "off"
RtIdle == rt = [pc |-> "off", inode |-> 0, offset |-> 0, t |-> 0, file |-> NoFile,
                out |-> EmptyDoc]
NoReport == Report(<< >>, << >>, FALSE)
BdIdle == bd = [pc |-> "off", fam |-> "", lines |-> << >>, events |-> << >>,
                events2 |-> << >>, out |-> NoReport, out2 |-> NoReport]
\* the locals of a cycle of fail2ban_daily_digest before it starts
NoCycle ==
    [st |-> EmptyDoc, lines |-> << >>, events |-> << >>, payload |-> NoReport,
     handed |-> 0, delivered |-> 0,
     raised |-> FALSE, failed |-> FALSE, denied |-> FALSE, advanced |-> FALSE,
     read |-> FALSE, save_failed |-> FALSE]
NoReply == [by |-> "", found |-> "", cat |-> "", report |-> NoReport]
DgIdle == dg = [pc |-> "off", boot |-> "done", daily |-> FALSE, runs |-> 0, cycles |-> 0,
                restarts |-> 0, failures |-> FALSE, readable |-> TRUE, c |-> NoCycle,
                reply |-> NoReply]
Off == [pc |-> "off"]
DvIdle == dv = Off
UsIdle == us = Off
WnIdle == wn = Off
PkIdle == pk = Off
MoreIdle == DvIdle /\ UsIdle /\ WnIdle /\ PkIdle
AuxIdle == BdIdle /\ DgIdle /\ MoreIdle

\* ------------------------------------------------------------------------
\* The log file's writers: fail2ban and logrotate
\* ------------------------------------------------------------------------
\* a cycle that has stat-ed the log sees every later change of it as a race
Racing(p) == pc[p] \notin {"idle", "wait", "load", "stat"}

LogChanged(rewrites) ==
    /\ loc' = [p \in Procs |-> IF Racing(p) THEN [loc[p] EXCEPT !.raced = TRUE] ELSE loc[p]]
    /\ hist' = [hist EXCEPT !.settled = FALSE,
                            !.clean = IF rewrites THEN FALSE ELSE @,
                            !.covered = IF rewrites THEN {} ELSE @]
    /\ UNCHANGED <<impl, down, stateFile, tmpFile, now, lock, pc, docs>>

LogAppend ==
    /\ logExists
    /\ Len(logData) < MaxLog
    /\ logData' = Append(logData, LogByte(Len(logData)))
    /\ UNCHANGED <<logExists, logInode>>
    /\ LogChanged(FALSE)

\* logrotate copytruncate: same inode, no bytes
LogTruncate ==
    /\ logExists
    /\ logData # << >>
    /\ logData' = << >>
    /\ UNCHANGED <<logExists, logInode>>
    /\ LogChanged(TRUE)

\* a new file at the path (also after the path had none)
LogRotate(i) ==
    /\ ~logExists \/ i # logInode
    /\ logExists' = TRUE
    /\ logInode' = i
    /\ logData' = << >>
    /\ LogChanged(TRUE)

LogRemove ==
    /\ logExists
    /\ logExists' = FALSE
    /\ logData' = << >>
    /\ logInode' = 0
    /\ LogChanged(TRUE)

\* ------------------------------------------------------------------------
\* read_fail2ban_new_lines_async (svc) and read_fail2ban_new_lines (main)
\* ------------------------------------------------------------------------
SetLoc(p, L) == loc' = [loc EXCEPT ![p] = L]
Goto(p, label) == pc' = [pc EXCEPT ![p] = label]
Dirty == hist' = [hist EXCEPT !.clean = FALSE]

\* a faulty variant: the exclusive section is entered without the lock
LockFree_unlocked(p) == TRUE

\* async with FAIL2BAN_STATE_LOCK: entered when the lock is free
LockFree(p) == lock = 0

\* a faulty variant: the lock stays held when the section is left
LockAfterExit_held(p) == lock

\* async with FAIL2BAN_STATE_LOCK: the lock is released when the section is
\* left, by a return or by an exception
LockAfterExit(p) == IF lock = p THEN 0 ELSE lock

\* a trigger calls read_fail2ban_new_lines_async
SvcCall(p) ==
    /\ impl = "svc" /\ ~down
    /\ pc[p] = "idle"
    /\ now < MaxTime
    /\ Goto(p, "wait")
    /\ UNCHANGED <<impl, down, logExists, logInode, logData, stateFile, tmpFile, now,
                   lock, loc, hist, docs>>

SvcAcquire(p) ==
    /\ impl = "svc" /\ ~down
    /\ pc[p] = "wait"
    /\ LockFree(p)
    /\ lock' = p
    /\ Goto(p, "load")
    /\ SetLoc(p, Loc0)
    /\ UNCHANGED <<impl, down, logExists, logInode, logData, stateFile, tmpFile, now, hist, docs>>

\* state = await load_json_file(state_path)
SvcLoad(p) ==
    /\ impl = "svc" /\ ~down
    /\ pc[p] = "load"
    /\ \E fault \in BOOLEAN :
        /\ SetLoc(p, [loc[p] EXCEPT !.st = load_json_file(stateFile, fault),
                                    !.fault = fault])
        /\ hist' = [hist EXCEPT !.clean = IF fault THEN FALSE ELSE @]
    /\ Goto(p, "stat")
    /\ UNCHANGED <<impl, down, logExists, logInode, logData, stateFile, tmpFile, now,
                   lock, docs>>

\* main.py: the call runs on the event loop without awaiting, so no other
\* coroutine is inside it; st = _load_json_file(state_path)
MainCall(p) ==
    /\ impl = "main" /\ ~down
    /\ \A q \in Procs : pc[q] = "idle"
    /\ now < MaxTime
    /\ \E fault \in BOOLEAN :
        /\ SetLoc(p, [Loc0 EXCEPT !.st = load_json_file(stateFile, fault),
                                  !.fault = fault])
        /\ hist' = [hist EXCEPT !.clean = IF fault THEN FALSE ELSE @]
    /\ Goto(p, "stat")
    /\ UNCHANGED <<impl, down, logExists, logInode, logData, stateFile, tmpFile, now,
                   lock, docs>>

\* a faulty variant: a missing log falls through to the save of a new cursor
MissingLogExit_saves == "save"

\* return [], None when the log is missing or its stat fails: the cycle goes
\* to its return, past the read and the save
MissingLogExit == "ret"

\* p.exists(), p.stat(), the two int(...) and the three offset rules
Stat(p) ==
    /\ ~down
    /\ pc[p] = "stat"
    /\ \E fault \in BOOLEAN :
        LET L == loc[p]
            off == IntField(L.st, K_offset)
            ino == IntField(L.st, K_inode)
        IN  /\ hist' = [hist EXCEPT !.clean = IF fault THEN FALSE ELSE @]
            /\ IF ~logExists \/ fault
               THEN /\ SetLoc(p, [L EXCEPT !.nolog = TRUE, !.fault = @ \/ fault])
                    /\ Goto(p, MissingLogExit)
               ELSE IF ~off.ok \/ ~ino.ok
               THEN SetLoc(p, [L EXCEPT !.raised = TRUE]) /\ Goto(p, "ret")
               ELSE /\ SetLoc(p, [L EXCEPT
                            !.inode = logInode,
                            !.size = Len(logData),
                            !.last_inode = ino.val,
                            !.stored = off.val,
                            !.offset = cap_offset(
                                reset_offset(off.val, ino.val, logInode, Len(logData)),
                                Len(logData), MaxReadBytes)])
                    /\ Goto(p, "read")
    /\ UNCHANGED <<impl, down, logExists, logInode, logData, stateFile, tmpFile, now,
                   lock, docs>>

\* with p.open("rb"): seek, read, tell; decode and splitlines; any
\* exception here is logged and ends the cycle with no new cursor
ReadChunk(p) ==
    /\ ~down
    /\ pc[p] = "read"
    /\ \E fault \in BOOLEAN :
        LET L == loc[p]
            chunk == read_chunk(logData, L.offset, MaxReadBytes)
            range == {L.offset + k : k \in 0..(Len(chunk) - 1)}
        IN  IF ~logExists \/ fault \/ L.offset < 0
            THEN /\ SetLoc(p, [L EXCEPT !.fault = @ \/ fault])
                 /\ Goto(p, "ret")
                 /\ hist' = [hist EXCEPT !.clean = IF fault THEN FALSE ELSE @]
                 /\ UNCHANGED now
            ELSE /\ SetLoc(p, [L EXCEPT
                        !.lines = splitlines(chunk),
                        !.nread = Len(chunk),
                        !.new_offset = L.offset + Len(chunk),
                        !.read_inode = logInode,
                        !.t = now,
                        !.did_read = TRUE,
                        !.has_new = TRUE])
                 /\ Goto(p, "save")
                 /\ now' = now + 1
                 /\ hist' = IF hist.clean
                            THEN [hist EXCEPT !.covered = @ \cup range,
                                              !.dup = @ \/ (range \cap hist.covered # {})]
                            ELSE hist
    /\ UNCHANGED <<impl, down, logExists, logInode, logData, stateFile, tmpFile,
                   lock, docs>>

\* save_json_file: mkdir, dumps, write the payload to <name>.tmp
SvcSaveTmp(p) ==
    /\ impl = "svc" /\ ~down
    /\ pc[p] = "save"
    /\ \E fault \in BOOLEAN :
        IF fault
        THEN /\ SetLoc(p, [loc[p] EXCEPT !.fault = TRUE])
             /\ Goto(p, "ret")
             /\ Dirty
             /\ UNCHANGED <<tmpFile, docs>>
        ELSE /\ tmpFile' = FileOf(Payload(loc[p]))
             /\ docs' = [prev |-> stateFile, new |-> FileOf(Payload(loc[p]))]
             /\ Goto(p, "replace")
             /\ UNCHANGED <<loc, hist>>
    /\ UNCHANGED <<impl, down, logExists, logInode, logData, stateFile, now, lock>>

\* a faulty variant: a failed save leaves the new document in the cursor file
kept_on_failure_new(file, tmp) == tmp

\* save_json_file, except Exception: logger.warning(...): the cursor file
\* after a replace that failed is the file as it was
kept_on_failure(file, tmp) == file

\* a faulty variant: the cursor file is written before the payload is whole
replaced_torn(tmp) == FileOf(SubSeq(tmp.data, 1, Len(tmp.data) \div 2))

\* tmp.replace(p): the cursor file after the rename is the temp file, whole
replaced(tmp) == tmp

\* save_json_file: tmp.replace(p).  A <name>.tmp left behind by a failed or
\* interrupted save is never read (the next save opens it with "w"), and the
\* model does not keep it.
SvcReplace(p) ==
    /\ impl = "svc" /\ ~down
    /\ pc[p] = "replace"
    /\ \E fault \in BOOLEAN :
        IF fault
        THEN /\ SetLoc(p, [loc[p] EXCEPT !.fault = TRUE])
             /\ Dirty
             /\ tmpFile' = NoFile
             /\ stateFile' = kept_on_failure(stateFile, tmpFile)
        ELSE /\ stateFile' = replaced(tmpFile)
             /\ tmpFile' = NoFile
             /\ SetLoc(p, [loc[p] EXCEPT !.saved = TRUE])
             /\ UNCHANGED hist
    /\ Goto(p, "ret")
    /\ UNCHANGED <<impl, down, logExists, logInode, logData, now, lock, docs>>

\* _save_json_file: p.write_text opens the cursor file itself for writing,
\* which empties it
MainOpenW(p) ==
    /\ impl = "main" /\ ~down
    /\ pc[p] = "save"
    /\ \E fault \in BOOLEAN :
        IF fault
        THEN /\ SetLoc(p, [loc[p] EXCEPT !.fault = TRUE])
             /\ Goto(p, "ret")
             /\ Dirty
             /\ UNCHANGED <<stateFile, docs>>
        ELSE /\ stateFile' = FileOf(<< >>)
             /\ docs' = [prev |-> stateFile, new |-> FileOf(Payload(loc[p]))]
             /\ Goto(p, "write")
             /\ UNCHANGED <<loc, hist>>
    /\ UNCHANGED <<impl, down, logExists, logInode, logData, tmpFile, now, lock>>

\* _save_json_file: p.write_text writes the payload and closes
MainWrite(p) ==
    /\ impl = "main" /\ ~down
    /\ pc[p] = "write"
    /\ stateFile' = FileOf(Payload(loc[p]))
    /\ SetLoc(p, [loc[p] EXCEPT !.saved = TRUE])
    /\ Goto(p, "ret")
    /\ UNCHANGED <<impl, down, logExists, logInode, logData, tmpFile, now, lock,
                   hist, docs>>

\* the call returns lines_out (or the exception leaves it); the lock is released
Return(p) ==
    /\ ~down
    /\ pc[p] = "ret"
    /\ LET L == loc[p]
           quiet == ~L.fault /\ ~L.raced
       IN  hist' = [hist EXCEPT !.settled = quiet]
    /\ lock' = LockAfterExit(p)
    /\ Goto(p, "idle")
    /\ SetLoc(p, Loc0)
    /\ docs' = NoDocs
    /\ UNCHANGED <<impl, down, logExists, logInode, logData, stateFile, tmpFile, now>>

\* the process is killed: a write_text in progress leaves what it had written
Crash ==
    /\ ~down
    /\ down' = TRUE
    /\ \/ UNCHANGED stateFile
       \/ \E p \in Procs :
            /\ pc[p] = "write"
            /\ stateFile' = FileOf(SubSeq(Payload(loc[p]), 1, Len(Payload(loc[p])) \div 2))
    /\ pc' = [p \in Procs |-> "idle"]
    /\ loc' = [p \in Procs |-> Loc0]
    /\ lock' = 0
    /\ hist' = [hist EXCEPT !.settled = FALSE, !.clean = FALSE, !.covered = {}]
    /\ tmpFile' = NoFile
    /\ docs' = IF docs = NoDocs THEN [prev |-> stateFile, new |-> stateFile] ELSE docs
    /\ UNCHANGED <<impl, logExists, logInode, logData, now>>

Restart ==
    /\ down
    /\ down' = FALSE
    /\ docs' = NoDocs
    /\ UNCHANGED <<impl, logExists, logInode, logData, stateFile, tmpFile, now, lock,
                   pc, loc, hist>>

\* the log file's writers
LogNext ==
    \/ LogAppend
    \/ LogTruncate
    \/ \E i \in Inodes : LogRotate(i)
    \/ LogRemove

\* one read cycle of the package, by coroutine p
SvcNext(p) ==
    \/ SvcCall(p)
    \/ SvcAcquire(p)
    \/ SvcLoad(p)
    \/ Stat(p)
    \/ ReadChunk(p)
    \/ SvcSaveTmp(p)
    \/ SvcReplace(p)
    \/ Return(p)

\* one read cycle of main.py, by coroutine p
MainNext(p) ==
    \/ MainCall(p)
    \/ Stat(p)
    \/ ReadChunk(p)
    \/ MainOpenW(p)
    \/ MainWrite(p)
    \/ Return(p)

\* Spec: either program with its daily job as the only caller of the reader,
\* the log's writers, I/O failures and kills of the process
Init == ReaderInit /\ ParserIdle /\ RtIdle /\ AuxIdle

Next ==
    /\ \/ LogNext
       \/ SvcNext(1)
       \/ MainNext(1)
       \/ Crash
       \/ Restart
    /\ UNCHANGED <<parserVars, rt, auxVars>>

Spec == Init /\ [][Next]_vars

\* ------------------------------------------------------------------------
\* SpecDeliver: the read cycles of the package (one coroutine, the log's
\* writers, I/O failures, kills) with a record of what they deliver.
\* dv keeps, while every cycle so far has succeeded over a log that was only
\* appended to (ok): the number of cycles, the first start offset, the last
\* end offset and the bytes read; of the read in progress: the size of the
\* log when it was read, the lines read and the cursor file the cycle began
\* with; of the cycle before: whether its save failed, its start offset and
\* its lines, whether it had loaded the cursor file without error and
\* whether the log stayed as its stat had found it, and whether the log has
\* changed since that cycle returned (changed) or had when the cycle after
\* it read the log (fresh: it had not).
\* ------------------------------------------------------------------------
NoPrev ==
    [failed |-> FALSE, loaded |-> FALSE, quiet |-> FALSE, offset |-> 0, lines |-> << >>]
NoDelivery ==
    [pc |-> "on", ok |-> TRUE, n |-> 0, first |-> 0, last |-> 0, got |-> << >>,
     skew |-> FALSE, re |-> FALSE, rsize |-> 0, rlines |-> << >>, at |-> NoFile,
     changed |-> FALSE,
     fresh |-> FALSE, prev |-> NoPrev]

\* the run no longer meets the conditions of an undisturbed delivery
Void(d) ==
    [d EXCEPT !.ok = FALSE, !.n = 0, !.first = 0, !.last = 0, !.got = << >>,
              !.skew = FALSE, !.re = FALSE]
Still(d, cond) == IF d.ok /\ cond THEN d ELSE Void(d)

\* the record after a step of coroutine 1, of the log's writers or of a kill
Track ==
    LET L == loc[1]
        M == loc'[1]
        chunk == read_chunk(logData, L.offset, MaxReadBytes)
    IN  IF <<logExists, logInode, logData>>' # <<logExists, logInode, logData>>
        THEN [Still(dv, /\ logExists /\ logExists' /\ logInode' = logInode
                        /\ Len(logData') > Len(logData))
                 EXCEPT !.changed = dv.prev.failed]
        ELSE IF down' # down
        THEN IF down'
             THEN [Still(dv, pc[1] = "idle") EXCEPT
                      !.rsize = 0, !.rlines = << >>, !.at = NoFile,
                      !.prev = IF pc[1] = "idle" THEN @ ELSE NoPrev]
             ELSE [dv EXCEPT !.re = dv.ok /\ dv.n > 0]
        ELSE IF pc'[1] = "stat" /\ pc[1] # "stat"
        THEN [Still(dv, ~M.fault) EXCEPT !.at = stateFile]
        ELSE IF pc[1] = "stat"
        THEN Still(dv, /\ pc'[1] = "read"
                       /\ M.offset = reset_offset(M.stored, M.last_inode, M.inode, M.size))
        ELSE IF pc[1] = "read" /\ pc'[1] = "save"
        THEN [(IF dv.ok
               THEN [dv EXCEPT !.n = @ + 1,
                               !.first = IF dv.n = 0 THEN L.offset ELSE @,
                               !.skew = @ \/ (dv.n > 0 /\ L.offset # dv.last),
                               !.last = M.new_offset,
                               !.got = @ \o chunk]
               ELSE dv)
                 EXCEPT !.rsize = Len(logData), !.rlines = splitlines(chunk),
                        !.fresh = dv.prev.failed /\ ~dv.changed, !.changed = FALSE]
        ELSE IF pc[1] = "read"
        THEN Void(dv)
        ELSE IF pc[1] \in {"save", "replace", "write"} /\ pc'[1] = "ret"
        THEN Still(dv, M.saved)
        ELSE IF pc[1] = "ret" /\ pc'[1] = "idle"
        THEN [dv EXCEPT !.rsize = 0, !.rlines = << >>, !.at = NoFile,
                        !.prev = IF L.did_read /\ ~L.saved
                                 THEN [failed |-> TRUE,
                                       loaded |-> L.st = load_json_file(dv.at, FALSE),
                                       quiet |-> ~L.raced,
                                       offset |-> L.offset, lines |-> L.lines]
                                 ELSE NoPrev]
        ELSE dv

DeliverCursorFiles == {NoFile, FileOf(CursorText(1, 1)), FileOf(CursorText(2, 1))}

InitDeliver ==
    /\ ReaderInit /\ impl = "svc" /\ stateFile \in DeliverCursorFiles
    /\ ParserIdle /\ RtIdle /\ BdIdle /\ DgIdle /\ UsIdle /\ WnIdle /\ PkIdle
    /\ dv = NoDelivery

DeliverNext ==
    /\ \/ LogNext
       \/ SvcNext(1)
       \/ Crash
       \/ Restart
    /\ dv' = Track
    /\ UNCHANGED <<parserVars, rt, bd, dg, us, wn, pk>>

SpecDeliver == InitDeliver /\ [][DeliverNext]_vars

\* ------------------------------------------------------------------------
\* SpecPeek: st_before = await load_json_file(FAIL2BAN_STATE_PATH) of
\* fail2ban_daily_digest, which holds no lock, beside a read cycle of another
\* coroutine.  The load is p.exists(), then the open, then the read of the
\* file that was opened; pk keeps its position, the file it opened, the
\* document it returned, whether an I/O error met it, and the cursor files
\* it may meet: the one present at its start and the payloads of the saves
\* in progress at its start or begun since.
\* ------------------------------------------------------------------------
NoPeek == [pc |-> "idle", fd |-> NoFile, seen |-> EmptyDoc, fault |-> FALSE, cands |-> {}]

PeekKeep == UNCHANGED <<readerVars, parserVars, rt, bd, dg, dv, us, wn>>

\* fail2ban_daily_digest starts
PkCall ==
    /\ pk.pc = "idle"
    /\ pk' = [NoPeek EXCEPT !.pc = "exists",
                            !.cands = {stateFile} \cup {d \in {docs.new} : d.exists}]
    /\ PeekKeep

\* if not p.exists(): return {}
PkExists ==
    /\ pk.pc = "exists"
    /\ pk' = IF stateFile.exists THEN [pk EXCEPT !.pc = "open"]
             ELSE [pk EXCEPT !.pc = "done", !.seen = load_json_file(stateFile, FALSE)]
    /\ PeekKeep

\* aiofiles.open(p, "r"): the file that is at the path now
PkOpen ==
    /\ pk.pc = "open"
    /\ \E fault \in BOOLEAN :
        pk' = IF fault \/ ~stateFile.exists
              THEN [pk EXCEPT !.pc = "done", !.fault = TRUE, !.seen = EmptyDoc]
              ELSE [pk EXCEPT !.pc = "read", !.fd = stateFile]
    /\ PeekKeep

\* raw = await f.read(); json.loads(raw); except Exception: return {}
PkRead ==
    /\ pk.pc = "read"
    /\ \E fault \in BOOLEAN :
        pk' = [pk EXCEPT !.pc = "done", !.fault = fault,
                         !.seen = load_json_file(pk.fd, fault)]
    /\ PeekKeep

\* the cycle goes on to the reader
PkReturn ==
    /\ pk.pc = "done"
    /\ pk' = NoPeek
    /\ PeekKeep

\* a step of the other coroutine's read cycle; a save that begins during
\* the load adds its payload to the cursor files the load may meet
PkOther ==
    /\ SvcNext(1)
    /\ pk' = IF pk.pc \in {"exists", "open", "read"} /\ docs' # docs /\ docs'.new.exists
             THEN [pk EXCEPT !.cands = @ \cup {docs'.new}]
             ELSE pk
    /\ UNCHANGED <<parserVars, rt, bd, dg, dv, us, wn>>

PkLog ==
    /\ LogAppend
    /\ UNCHANGED <<parserVars, rt, auxVars>>

InitPeek ==
    /\ ReaderInit /\ impl = "svc" /\ stateFile \in {NoFile, FileOf(CursorText(1, 1))}
    /\ ParserIdle /\ RtIdle /\ BdIdle /\ DgIdle /\ DvIdle /\ UsIdle /\ WnIdle
    /\ pk = NoPeek

PeekNext ==
    \/ PkCall
    \/ PkExists
    \/ PkOpen
    \/ PkRead
    \/ PkReturn
    \/ PkOther
    \/ PkLog

SpecPeek == InitPeek /\ [][PeekNext]_vars

\* ------------------------------------------------------------------------
\* SpecParse: both parse_fail2ban_events applied to one log line
\* ------------------------------------------------------------------------
\* the messages: up to MaxWords words of the vocabulary
WordSeqs == UNION {[1..n -> Vocabulary] : n \in 1..MaxWords}
Messages == {Join(ws) : ws \in WordSeqs}

TsGroups ==
    {[month |-> 1, hour |-> 10, millis |-> TRUE],
     [month |-> 1, hour |-> 10, millis |-> FALSE],
     [month |-> 13, hour |-> 10, millis |-> TRUE],
     [month |-> 1, hour |-> 25, millis |-> FALSE]}

\* a line F2B_LINE_RE matches, by its groups, or one it does not match
Lines ==
    {[shape |-> TRUE, ts |-> t, jail |-> j, msg |-> m] :
        t \in TsGroups, j \in {J_sshd, J_blank}, m \in Messages}
    \cup {[shape |-> FALSE, ts |-> [month |-> 0, hour |-> 0, millis |-> FALSE],
           jail |-> << >>, msg |-> m] : m \in Messages}

ParseInit ==
    /\ pLines \in {<<l>> : l \in Lines}
    /\ pOut = NoEvents
    /\ pPc = "in"

ParseSvc ==
    /\ pPc = "in"
    /\ pOut' = [pOut EXCEPT !.svc = svc_parse_fail2ban_events(pLines)]
    /\ pPc' = "svc"
    /\ UNCHANGED pLines

ParseMain ==
    /\ pPc = "svc"
    /\ pOut' = [pOut EXCEPT !.main = main_parse_fail2ban_events(pLines)]
    /\ pPc' = "out"
    /\ UNCHANGED pLines

\* every variable of the reader, at rest
ReaderIdle == ReaderInit /\ impl = "svc" /\ stateFile = NoFile

InitParse == ReaderIdle /\ ParseInit /\ RtIdle /\ AuxIdle

SpecParse ==
    /\ InitParse
    /\ [][(ParseSvc \/ ParseMain) /\ UNCHANGED <<readerVars, rt, auxVars>>]_vars

\* ------------------------------------------------------------------------
\* SpecRoundTrip: a cursor saved, the process restarted, the cursor loaded
\* ------------------------------------------------------------------------
RtValues == {0, 7, 42, 100, 1234, 5000000}
RtTimes == {1, 12, 345}

RtInit ==
    rt \in {[pc |-> "in", inode |-> i, offset |-> o, t |-> t, file |-> NoFile,
             out |-> EmptyDoc] : i \in RtValues, o \in RtValues, t \in RtTimes}

\* save_json_file(path, new_state)
RtSave ==
    /\ rt.pc = "in"
    /\ rt' = [rt EXCEPT !.pc = "saved",
                        !.file = FileOf(json_dumps(new_state(rt.inode, rt.offset, rt.t)))]

\* after a restart: load_json_file(path)
RtLoad ==
    /\ rt.pc = "saved"
    /\ rt' = [rt EXCEPT !.pc = "loaded", !.out = load_json_file(rt.file, FALSE)]

InitRoundTrip == ReaderIdle /\ ParserIdle /\ RtInit /\ AuxIdle

SpecRoundTrip ==
    /\ InitRoundTrip
    /\ [][(RtSave \/ RtLoad) /\ UNCHANGED <<readerVars, parserVars, auxVars>>]_vars

\* SpecLock: the package with two triggers calling the reader concurrently
LockInit == Init /\ impl = "svc" /\ stateFile \in {NoFile, FileOf(CursorText(1, 1))}

LockNext ==
    /\ \/ LogNext
       \/ \E p \in Procs : SvcNext(p)
    /\ UNCHANGED <<parserVars, rt, auxVars>>

SpecLock == LockInit /\ [][LockNext]_vars

\* ------------------------------------------------------------------------
\* SpecBuild: build_fail2ban_digest_text applied to a list of events, to the
\* same events in another order, and to the events parsed from log lines
\* ------------------------------------------------------------------------
\* the most ban events of one jail, and the most log lines, passed in
MaxBans == 22
MaxLines == 3

LogLine(jail, hour, msg) ==
    [shape |-> TRUE, ts |-> [month |-> 1, hour |-> hour, millis |-> TRUE],
     jail |-> jail, msg |-> msg]

\* n ban events of a jail at distinct hours, every fifth a Restore Ban, the
\* oldest or the newest first
BanRun(jail, n, newest_first) ==
    [i \in 1..n |->
        LET hour == IF newest_first THEN n - i ELSE i - 1
            msg == IF i % 5 = 0 THEN Join(<<W_Restore, W_Ban, W_addr>>)
                   ELSE Join(<<W_Ban, W_addr>>)
        IN  main_parse_line(LogLine(jail, hour, msg))[1]]

CapCounts == {0, 1, DigestCap, DigestCap + 1, MaxBans}

\* events of three jails, each jail with none, one, 20 or more than 20 bans
CapInputs ==
    {BanRun(J_sshd, a, d) \o BanRun(J_nginx, b, d) \o BanRun(J_recidive, c, d) :
        a \in CapCounts, b \in CapCounts, c \in CapCounts, d \in BOOLEAN}

\* four events: two bans of one jail with equal timestamps, a later ban of
\* that jail, and an unban of another jail
PermEvents ==
    {main_parse_line(LogLine(J_sshd, 10, Join(<<W_Ban, W_addr>>)))[1],
     main_parse_line(LogLine(J_sshd, 10, Join(<<W_Ban, W_addr6>>)))[1],
     main_parse_line(LogLine(J_sshd, 11, Join(<<W_Ban, W_addr>>)))[1],
     main_parse_line(LogLine(J_nginx, 10, Join(<<W_Unban, W_addr>>)))[1]}

\* the orders a set of events can be supplied in
Orders(S) ==
    {f \in [1..Cardinality(S) -> S] : \A i, j \in 1..Cardinality(S) : i # j => f[i] # f[j]}

\* log lines: one per action, one whose message holds "Ban" after another
\* word, one of another jail, one with an impossible date, one that
\* F2B_LINE_RE does not match
DigestLines ==
    {LogLine(J_sshd, 10, Join(<<W_Ban, W_addr>>)),
     LogLine(J_sshd, 10, Join(<<W_Unban, W_addr>>)),
     LogLine(J_sshd, 10, Join(<<W_Restore, W_Ban, W_addr>>)),
     LogLine(J_sshd, 10, Join(<<W_Jail, W_started>>)),
     LogLine(J_sshd, 10, Join(<<W_Increase, W_Ban, W_addr>>)),
     LogLine(J_nginx, 10, Join(<<W_Ban, W_addr6>>)),
     [shape |-> TRUE, ts |-> [month |-> 13, hour |-> 10, millis |-> TRUE],
      jail |-> J_sshd, msg |-> Join(<<W_Ban, W_addr>>)],
     [shape |-> FALSE, ts |-> [month |-> 0, hour |-> 0, millis |-> FALSE],
      jail |-> << >>, msg |-> Join(<<W_Ban, W_addr>>)]}

BdStart(fam, lines, events, events2) ==
    [pc |-> IF fam = "lines" THEN "lines" ELSE "events", fam |-> fam, lines |-> lines,
     events |-> events, events2 |-> events2, out |-> NoReport, out2 |-> NoReport]

BuildInit ==
    bd \in {BdStart("cap", << >>, evs, evs) : evs \in CapInputs}
       \cup UNION {{BdStart("perm", << >>, a, b) : a \in Orders(S), b \in Orders(S)} :
                     S \in SUBSET PermEvents}
       \cup {BdStart("lines", ls, << >>, << >>) :
                ls \in UNION {[1..n -> DigestLines] : n \in 0..MaxLines}}

\* events = parse_fail2ban_events(raw_lines), by the package and by main.py
BdParse ==
    /\ bd.pc = "lines"
    /\ bd' = [bd EXCEPT !.pc = "events",
                        !.events = svc_parse_fail2ban_events(bd.lines),
                        !.events2 = main_parse_fail2ban_events(bd.lines)]

\* payload = build_fail2ban_digest_text(events, since=since, until=until)
BdBuild ==
    /\ bd.pc = "events"
    /\ bd' = [bd EXCEPT !.pc = "built",
                        !.out = build_fail2ban_digest_text(bd.events),
                        !.out2 = build_fail2ban_digest_text(bd.events2)]

InitBuild == ReaderIdle /\ ParserIdle /\ RtIdle /\ DgIdle /\ MoreIdle /\ BuildInit

SpecBuild ==
    /\ InitBuild
    /\ [][(BdParse \/ BdBuild) /\ UNCHANGED <<readerVars, parserVars, rt, dg, moreVars>>]_vars

\* ------------------------------------------------------------------------
\* SpecDigest: the job queue of build_app, fail2ban_daily_digest with its
\* reader, parser, builder and sender, the two ad-hoc requests f2b_tail_cb
\* and f2b_digest_cb, fail2ban writing the log, kills and restarts
\* ------------------------------------------------------------------------
\* the most bytes of log, scheduled cycles, restarts and administrators
MaxDigestLog == 4
MaxCycles == 2
MaxRestarts == 1
MaxAdmins == 2
\* max_read_bytes: int = 5_000_000
DefaultMaxReadBytes == 5000000

\* A record of the log is written here with two characters and a newline:
\* "h" stands for the prefix "<date> <logger> [<pid>]: <LEVEL> [sshd] " and
\* the second character for the message, "B" for "Ban 10.0.0.5" and "U" for
\* "Unban 10.0.0.5".
RecordMessages == {"B", "U"}

\* F2B_LINE_RE.match(raw): the groups of a record; any other text, a part of
\* a record among them, does not match
MatchLine(raw) ==
    IF Len(raw) = 2 /\ raw[1] = "h" /\ raw[2] \in RecordMessages
    THEN LogLine(J_sshd, 10, IF raw[2] = "B" THEN Join(<<W_Ban, W_addr>>)
                             ELSE Join(<<W_Unban, W_addr>>))
    ELSE [shape |-> FALSE, ts |-> [month |-> 0, hour |-> 0, millis |-> FALSE],
          jail |-> << >>, msg |-> << >>]

MatchLines(raws) == [i \in 1..Len(raws) |-> MatchLine(raws[i])]

\* _read_fail2ban_chunk_sync, and read_fail2ban_new_lines after its load:
\* the lines returned, the new cursor if there is one, and whether an
\* exception leaves the call
read_new_lines(st, exists, readable, inode, data, t, flt) ==
    LET off == IntField(st, K_offset)
        ino == IntField(st, K_inode)
        offset == cap_offset(reset_offset(off.val, ino.val, inode, Len(data)),
                             Len(data), DefaultMaxReadBytes)
        chunk == read_chunk(data, offset, DefaultMaxReadBytes)
        nothing == [lines |-> << >>, new_state |-> None, raised |-> FALSE, denied |-> FALSE]
    IN  IF ~exists \/ flt.stat THEN nothing
        ELSE IF ~off.ok \/ ~ino.ok THEN [nothing EXCEPT !.raised = TRUE]
        ELSE IF ~readable THEN [nothing EXCEPT !.denied = TRUE]
        ELSE IF flt.read \/ offset < 0 THEN nothing
        ELSE [lines |-> splitlines(chunk),
              new_state |-> Some(new_state(inode, offset + Len(chunk), t)),
              raised |-> FALSE, denied |-> FALSE]

\* "\n".join(lines)
RECURSIVE JoinNl(_)
JoinNl(lines) ==
    IF lines = << >> THEN << >>
    ELSE IF Len(lines) = 1 THEN lines[1]
    ELSE lines[1] \o <<"\n">> \o JoinNl(Tail(lines))

\* a faulty variant: a file that cannot be opened is reported as missing
tail_text_file_hides_mode(exists, readable, data, n_lines, max_bytes) ==
    IF ~exists \/ ~readable THEN [exc |-> "FileNotFoundError", text |-> << >>]
    ELSE [exc |-> "", text |-> JoinNl(last_n(splitlines(data), n_lines))]

\* tail_text_file(path, n_lines, max_bytes): the exception raised, or the text
tail_text_file(exists, readable, data, n_lines, max_bytes) ==
    IF ~exists THEN [exc |-> "FileNotFoundError", text |-> << >>]
    ELSE IF ~readable THEN [exc |-> "PermissionError", text |-> << >>]
    ELSE LET read_size == Min(Len(data), max_bytes)
             buf == SubSeq(data, Len(data) - read_size + 1, Len(data))
         IN  [exc |-> "",
              text |-> JoinNl(last_n(splitlines(buf), Max(1, Min(n_lines, 10000))))]

\* the except clauses of f2b_tail_cb and f2b_digest_cb: the category of the reply
ReplyCategory(exc, otherwise) ==
    IF exc = "FileNotFoundError" THEN "not_found"
    ELSE IF exc = "PermissionError" THEN "no_permission"
    ELSE IF exc # "" THEN "error"
    ELSE otherwise

\* a faulty variant: every event counts as a ban
is_ban_event_any(e) == TRUE

\* e.action in ("Ban", "Restore Ban")
is_ban_event(e) == e.action \in BanActions

\* parse_fail2ban_events of the program that runs
parse_fail2ban_events(raws) ==
    IF impl = "svc" THEN svc_parse_fail2ban_events(MatchLines(raws))
    ELSE main_parse_fail2ban_events(MatchLines(raws))

\* what the log file is found to be
Found == IF ~logExists THEN "missing" ELSE IF ~dg.readable THEN "unreadable" ELSE "readable"

\* the process has just started; the log is missing, or holds one of logs
DigestInit(logs) ==
    /\ impl \in {"svc", "main"}
    /\ down = FALSE
    /\ logExists \in BOOLEAN
    /\ logInode = (IF logExists THEN 1 ELSE 0)
    /\ logData \in (IF logExists THEN logs ELSE {<< >>})
    /\ stateFile \in {NoFile, FileOf(StrOffsetText)}
    /\ tmpFile = NoFile
    /\ now = 1
    /\ lock = 0
    /\ pc = [p \in Procs |-> "idle"]
    /\ loc = [p \in Procs |-> Loc0]
    /\ hist = [settled |-> FALSE, clean |-> TRUE, covered |-> {}, dup |-> FALSE]
    /\ docs = NoDocs
    /\ dg \in {[pc |-> "idle", boot |-> "pending", daily |-> FALSE, runs |-> 0, cycles |-> 0,
                restarts |-> 0, failures |-> FALSE, readable |-> r, c |-> NoCycle,
                reply |-> NoReply] : r \in BOOLEAN}
    /\ logExists \/ dg.readable

InitDigest == DigestInit({<< >>}) /\ ParserIdle /\ RtIdle /\ BdIdle /\ MoreIdle

\* what no step of the digest changes
DgKeep == UNCHANGED <<impl, logExists, logInode, tmpFile, pc, loc, hist, docs>>

\* fail2ban writes the next byte of a record
DgAppend ==
    /\ logExists
    /\ Len(logData) < MaxDigestLog
    /\ \E m \in RecordMessages :
        logData' = Append(logData, CASE Len(logData) % 3 = 0 -> "h"
                                     [] Len(logData) % 3 = 1 -> m
                                     [] OTHER -> "\n")
    /\ UNCHANGED <<down, stateFile, now, lock, dg>>
    /\ DgKeep

\* the one-shot job of build_app, maint_restart_notify: it sends the
\* maintenance notices and runs no digest
DgBoot ==
    /\ ~down
    /\ dg.boot = "pending"
    /\ dg' = [dg EXCEPT !.boot = "done"]
    /\ UNCHANGED <<down, logData, stateFile, now, lock>>
    /\ DgKeep

\* the daily timer fires: fail2ban_daily_digest starts
DgFire ==
    /\ ~down
    /\ dg.pc = "idle"
    /\ dg.cycles < MaxCycles
    /\ dg' = [dg EXCEPT !.pc = IF impl = "svc" THEN "wait" ELSE "load",
                        !.daily = TRUE,
                        !.runs = @ + 1,
                        !.cycles = @ + 1]
    /\ UNCHANGED <<down, logData, stateFile, now, lock>>
    /\ DgKeep

\* async with FAIL2BAN_STATE_LOCK, in the package
DgAcquire ==
    /\ ~down
    /\ impl = "svc"
    /\ dg.pc = "wait"
    /\ LockFree(1)
    /\ lock' = 1
    /\ dg' = [dg EXCEPT !.pc = "load"]
    /\ UNCHANGED <<down, logData, stateFile, now>>
    /\ DgKeep

\* state = await load_json_file(state_path); st = _load_json_file(state_path)
DgLoad ==
    /\ ~down
    /\ dg.pc = "load"
    /\ \E fault \in BOOLEAN :
        dg' = [dg EXCEPT !.pc = "read", !.c = [@ EXCEPT !.st = load_json_file(stateFile, fault)]]
    /\ UNCHANGED <<down, logData, stateFile, now, lock>>
    /\ DgKeep

\* the reader: stat, read, and the save of the new cursor, whose failure is
\* logged and not raised
DgRead ==
    /\ ~down
    /\ dg.pc = "read"
    /\ \E flt \in [{"stat", "read", "save"} -> BOOLEAN] :
        LET R == read_new_lines(dg.c.st, logExists, dg.readable, logInode, logData, now, flt)
            saved == R.new_state.some /\ ~flt["save"]
        IN  /\ stateFile' = IF saved THEN FileOf(json_dumps(R.new_state.v)) ELSE stateFile
            /\ dg' = [dg EXCEPT
                        !.pc = IF impl = "svc" THEN "release"
                               ELSE IF R.raised THEN "caught" ELSE "parse",
                        !.c = [@ EXCEPT !.lines = R.lines, !.raised = R.raised,
                                        !.denied = R.denied, !.advanced = saved,
                                        !.read = R.new_state.some,
                                        !.save_failed = R.new_state.some /\ flt["save"]]]
    /\ now' = now + 1
    /\ UNCHANGED <<down, logData, lock>>
    /\ DgKeep

\* the package's reader leaves the section, by return or by exception
DgRelease ==
    /\ ~down
    /\ dg.pc = "release"
    /\ lock' = LockAfterExit(1)
    /\ dg' = [dg EXCEPT !.pc = IF dg.c.raised THEN "caught" ELSE "parse"]
    /\ UNCHANGED <<down, logData, stateFile, now>>
    /\ DgKeep

\* if not raw_lines: return; parse; if not ban_events: return; build
DgParse ==
    /\ ~down
    /\ dg.pc = "parse"
    /\ \E fault \in BOOLEAN :
        LET events == parse_fail2ban_events(dg.c.lines)
            ban_events == SelectSeq(events, is_ban_event)
        IN  dg' = IF dg.c.lines = << >> THEN [dg EXCEPT !.pc = "done"]
                  ELSE IF fault THEN [dg EXCEPT !.pc = "caught"]
                  ELSE IF ban_events = << >>
                  THEN [dg EXCEPT !.pc = "done", !.c = [@ EXCEPT !.events = events]]
                  ELSE [dg EXCEPT !.pc = "send",
                                  !.c = [@ EXCEPT !.events = events,
                                         !.payload = build_fail2ban_digest_text(events)]]
    /\ UNCHANGED <<down, logData, stateFile, now, lock>>
    /\ DgKeep

\* admin_ids = authorized_ids(role_filter="admin"); if not admin_ids: return;
\* send_to_many counts the sends that succeed and raises nothing
DgSend ==
    /\ ~down
    /\ dg.pc = "send"
    /\ \E admins \in 0..MaxAdmins, ok \in 0..MaxAdmins, fault \in BOOLEAN :
        /\ ok <= admins
        /\ dg' = IF fault THEN [dg EXCEPT !.pc = "caught"]
                 ELSE [dg EXCEPT !.pc = "done",
                                 !.c = [@ EXCEPT !.handed = admins, !.delivered = ok]]
    /\ UNCHANGED <<down, logData, stateFile, now, lock>>
    /\ DgKeep

\* except Exception: the error is logged
DgCaught ==
    /\ ~down
    /\ dg.pc = "caught"
    /\ dg' = [dg EXCEPT !.pc = "done", !.failures = TRUE,
                        !.c = [@ EXCEPT !.failed = TRUE]]
    /\ UNCHANGED <<down, logData, stateFile, now, lock>>
    /\ DgKeep

\* fail2ban_daily_digest returns
DgReturn ==
    /\ ~down
    /\ dg.pc = "done"
    /\ dg' = [dg EXCEPT !.pc = "idle", !.c = NoCycle]
    /\ UNCHANGED <<down, logData, stateFile, now, lock>>
    /\ DgKeep

\* n = 200 if n < 50 else (5000 if n > 5000 else n)
tail_n(n) == IF n < 50 THEN 200 ELSE IF n > 5000 THEN 5000 ELSE n

\* f2b_tail_cb: the button "tail n"
DgTailCmd ==
    /\ ~down
    /\ \E n \in {1, 5000}, fault \in BOOLEAN :
        LET r == tail_text_file(logExists, dg.readable, logData, tail_n(n), 2000000)
            shown == IF fault THEN "error"
                     ELSE IF Strip(r.text) = << >> THEN "empty" ELSE "tail"
        IN  dg' = [dg EXCEPT !.reply = [by |-> "tail", found |-> Found,
                                        cat |-> ReplyCategory(r.exc, shown),
                                        report |-> NoReport]]
    /\ UNCHANGED <<down, logData, stateFile, now, lock>>
    /\ DgKeep

\* f2b_digest_cb: the button "digest"; recent: the events lie in the last day
DgDigestCmd ==
    /\ ~down
    /\ \E recent \in BOOLEAN, fault \in BOOLEAN :
        LET r == tail_text_file(logExists, dg.readable, logData, 20000, 3000000)
            events == parse_fail2ban_events(splitlines(r.text))
            cat == ReplyCategory(r.exc, IF fault THEN "error" ELSE "report")
        IN  dg' = [dg EXCEPT !.reply =
                     [by |-> "digest", found |-> Found, cat |-> cat,
                      report |-> IF cat # "report" THEN NoReport
                                 ELSE build_fail2ban_digest_text(
                                          IF recent THEN events ELSE << >>)]]
    /\ UNCHANGED <<down, logData, stateFile, now, lock>>
    /\ DgKeep

\* the process is killed: its jobs and its lock go with it
DgKill ==
    /\ ~down
    /\ dg.restarts < MaxRestarts
    /\ down' = TRUE
    /\ lock' = 0
    /\ dg' = [dg EXCEPT !.pc = "off", !.restarts = @ + 1, !.c = NoCycle, !.reply = NoReply]
    /\ UNCHANGED <<logData, stateFile, now>>
    /\ DgKeep

\* the process starts: build_app registers the daily job and the one-shot job
DgStart ==
    /\ down
    /\ down' = FALSE
    /\ dg' = [dg EXCEPT !.pc = "idle", !.boot = "pending", !.daily = FALSE, !.runs = 0]
    /\ UNCHANGED <<logData, stateFile, now, lock>>
    /\ DgKeep

DigestNext ==
    /\ \/ DgAppend
       \/ DgBoot
       \/ DgFire
       \/ DgAcquire
       \/ DgLoad
       \/ DgRead
       \/ DgRelease
       \/ DgParse
       \/ DgSend
       \/ DgCaught
       \/ DgReturn
       \/ DgKill
       \/ DgStart
    /\ UNCHANGED <<parserVars, rt, bd, moreVars>>

SpecDigest == InitDigest /\ [][DigestNext]_vars

\* SpecAdHoc: the ad-hoc requests and the scheduled cycle over a log that
\* is missing, unreadable or readable
Rec(m) == <<"h", m, "\n">>
AdHocLogs == {<< >>, Rec("B"), Rec("U"), Rec("B") \o Rec("U"), Rec("U") \o <<"h">>}

InitAdHoc == DigestInit(AdHocLogs) /\ ParserIdle /\ RtIdle /\ BdIdle /\ MoreIdle

AdHocNext ==
    /\ \/ DgFire
       \/ DgAcquire
       \/ DgLoad
       \/ DgRead
       \/ DgRelease
       \/ DgParse
       \/ DgSend
       \/ DgCaught
       \/ DgReturn
       \/ DgTailCmd
       \/ DgDigestCmd
    /\ UNCHANGED <<parserVars, rt, bd, moreVars>>

SpecAdHoc == InitAdHoc /\ [][AdHocNext]_vars

\* ------------------------------------------------------------------------
\* SpecUsers: the registry USER_DATA.authorized_users with the handlers that
\* change it (/auth, /logout, the administrators' toggle) and the end of a
\* scheduled digest cycle: authorized_ids(role_filter="admin") and
\* send_to_many.  us keeps the registry, the position of the cycle, the
\* recipients resolved, the next one to send to, whether the registry has
\* changed since the cycle resolved them, and for every send of the cycle
\* the recipient with its registry entry at that time.
\* ------------------------------------------------------------------------
\* the most registered users
MaxUsers == 2
Users == 1..MaxUsers

NoUser == [in |-> FALSE, role |-> "", enabled |-> FALSE]

PyBool(b) == [t |-> "bool", v |-> b]
PyStr(x) == [t |-> "str", v |-> x]

\* _normalize_bool(value, truthy) for a bool or a str
normalize_bool(value, truthy) ==
    IF value.t = "str" THEN value.v \in truthy ELSE value.v

\* UserData._normalize_user(meta): the role and the enabled flag of the entry
normalize_user(role, enabled) ==
    [in |-> TRUE,
     role |-> IF role \in {"user", "admin"} THEN role ELSE "user",
     enabled |-> normalize_bool(enabled, {"1", "true", "yes", "y", "on", "enabled"})]

\* what a user data file can hold for a user
RawRoles == {"admin", "user", "owner"}
RawEnabled == {PyBool(TRUE), PyBool(FALSE), PyStr("yes"), PyStr("no")}

\* UserData._migrate(raw): the registries a start of the process can load
LoadedEntries == {NoUser} \cup {normalize_user(r, e) : r \in RawRoles, e \in RawEnabled}

\* sorted(set(ids))
RECURSIVE Ascending(_)
Ascending(S) ==
    IF S = {} THEN << >>
    ELSE LET m == CHOOSE x \in S : \A y \in S : x <= y
         IN  <<m>> \o Ascending(S \ {m})

\* a faulty variant: neither the role nor the enabled flag is tested
authorized_ids_all(reg, role_filter, exclude) ==
    Ascending({u \in Users : reg[u].in /\ u \notin exclude})

\* authorized_ids(role_filter, exclude)
authorized_ids(reg, role_filter, exclude) ==
    Ascending({u \in Users :
                 /\ reg[u].in
                 /\ u \notin exclude
                 /\ reg[u].enabled
                 /\ (role_filter # "" => reg[u].role = role_filter)})

UsKeep == UNCHANGED <<readerVars, parserVars, rt, bd, dg, dv, wn, pk>>

\* the registry changes; a cycle that is sending had resolved its recipients before
UsSet(u, entry) ==
    us' = [us EXCEPT !.reg = [us.reg EXCEPT ![u] = entry],
                     !.touched = @ \/ us.pc = "send"]

\* cmd_auth with the password of a role: the entry keeps its enabled flag,
\* and its role while it is disabled
UsAuth(u, role) ==
    /\ LET existing == us.reg[u]
           preserved_enabled == IF existing.in THEN existing.enabled ELSE TRUE
           role_to_set == IF existing.in /\ ~preserved_enabled THEN existing.role ELSE role
       IN  UsSet(u, normalize_user(role_to_set, PyBool(preserved_enabled)))
    /\ UsKeep

\* cmd_logout: refused to a disabled user
UsLogout(u) ==
    /\ us.reg[u].in /\ us.reg[u].enabled
    /\ UsSet(u, NoUser)
    /\ UsKeep

\* users:toggle:<uid>, pressed by an enabled administrator a: refused for an
\* administrator's entry
UsToggle(a, u) ==
    /\ us.reg[a].in /\ us.reg[a].enabled /\ us.reg[a].role = "admin"
    /\ us.reg[u].in /\ us.reg[u].role # "admin"
    /\ UsSet(u, normalize_user(us.reg[u].role, PyBool(~us.reg[u].enabled)))
    /\ UsKeep

\* admin_ids = authorized_ids(role_filter="admin"); if not admin_ids: return
UsResolve ==
    /\ us.pc = "idle"
    /\ LET admin_ids == authorized_ids(us.reg, "admin", {})
       IN  us' = [us EXCEPT !.pc = IF admin_ids = << >> THEN "idle" ELSE "send",
                            !.ids = admin_ids, !.k = 1, !.touched = FALSE,
                            !.sent = {}, !.cycles = Min(@ + 1, 2)]
    /\ UsKeep

\* send_to_many: await context.bot.send_message(chat_id=uid, ...), which
\* succeeds or fails; after the last recipient the cycle returns
UsSend ==
    /\ us.pc = "send"
    /\ \E ok \in BOOLEAN :
        us' = [us EXCEPT
                 !.sent = @ \cup {[uid |-> us.ids[us.k], was |-> us.reg[us.ids[us.k]],
                                   ok |-> ok, touched |-> us.touched]},
                 !.k = @ + 1,
                 !.pc = IF us.k = Len(us.ids) THEN "idle" ELSE "send"]
    /\ UsKeep

InitUsers ==
    /\ ReaderIdle /\ ParserIdle /\ RtIdle /\ BdIdle /\ DgIdle /\ DvIdle /\ WnIdle /\ PkIdle
    /\ us \in {[pc |-> "idle", reg |-> reg, ids |-> << >>, k |-> 1, touched |-> FALSE,
                sent |-> {}, cycles |-> 0] : reg \in [Users -> LoadedEntries]}

UsersNext ==
    \/ \E u \in Users, role \in {"admin", "user"} : UsAuth(u, role)
    \/ \E u \in Users : UsLogout(u)
    \/ \E a \in Users, u \in Users : UsToggle(a, u)
    \/ UsResolve
    \/ UsSend

SpecUsers == InitUsers /\ [][UsersNext]_vars

\* ------------------------------------------------------------------------
\* The periods of the digests: fail2ban_daily_digest and f2b_digest_cb with a
\* clock in seconds.  The log is a sequence of stamped lines and the cursor's
\* offset counts lines.
\* ------------------------------------------------------------------------
MaxTicks == 2
MaxStamped == 2
MaxWindows == 2
DaySeconds == 86400
PadSeconds == 1

\* a line of the log that the parser matches: its time stamp and its action
Stamped(ts, action) == [ts |-> ts, action |-> action]

\* datetime.fromisoformat(x): None when it raises
fromisoformat(x) ==
    IF x.t = "str" /\ Len(x.v) >= 2 /\ x.v[1] = "T"
       /\ \A i \in 2..Len(x.v) : IsDigit(x.v[i])
    THEN Some(ScanDigits(x.v, 2, 0).val)
    ELSE None

\* the time a cursor document carries: None when updated_at is absent, empty
\* or does not parse
cursor_time(doc) ==
    LET x == Get(doc, K_updated_at, JNull)
    IN  IF Truthy(x) THEN fromisoformat(x) ELSE None

\* a faulty variant: the cursor's time is never consulted
since_day_only(st_before, until) == until - DaySeconds

\* since of the scheduled digest: the cursor's updated_at less one second,
\* one day before until when the cursor carries no time
since_of(st_before, until) ==
    LET at == cursor_time(st_before)
    IN  IF at.some THEN at.v - PadSeconds ELSE until - DaySeconds

\* events = [e for e in events if since <= e.ts <= until]
RECURSIVE in_window(_, _, _)
in_window(events, since, until) ==
    IF events = << >> THEN << >>
    ELSE LET e == Head(events)
             rest == in_window(Tail(events), since, until)
         IN  IF since <= e.ts /\ e.ts <= until THEN <<e>> \o rest ELSE rest

\* a call of build_fail2ban_digest_text(events, since=since, until=until)
NoCall == [made |-> FALSE, events |-> << >>, since |-> 0, until |-> 0]
Call(events, since, until) ==
    [made |-> TRUE, events |-> events, since |-> since, until |-> until]

\* the locals of a scheduled cycle, and what is remembered of the one before
NoWindow ==
    [st_before |-> EmptyDoc, persisted |-> NoFile, state |-> EmptyDoc,
     lines |-> << >>, read |-> FALSE, read_at |-> 0]
NoEarlier == [ran |-> FALSE, read |-> FALSE, read_at |-> 0, built |-> FALSE, until |-> 0]

Earlier(built) ==
    [ran |-> TRUE, read |-> wn.c.read, read_at |-> wn.c.read_at, built |-> built,
     until |-> IF built THEN wn.call.until ELSE 0]

WnKeep == UNCHANGED <<readerVars, parserVars, rt, bd, dg, dv, us, pk>>

\* the clock advances
WnTick(d) ==
    /\ wn.ticks < MaxTicks
    /\ wn' = [wn EXCEPT !.clock = @ + d, !.ticks = @ + 1]
    /\ WnKeep

\* fail2ban bans an address: a line stamped with the current time
WnAppend ==
    /\ Len(wn.log) < MaxStamped
    /\ wn' = [wn EXCEPT !.log = Append(@, Stamped(wn.clock, "Ban"))]
    /\ WnKeep

\* st_before = await load_json_file(FAIL2BAN_STATE_PATH)
WnLoadBefore ==
    /\ wn.pc = "idle"
    /\ wn.cycles < MaxWindows
    /\ \E fault \in BOOLEAN :
         wn' = [wn EXCEPT !.pc = "lock",
                          !.call = NoCall,
                          !.c = [NoWindow EXCEPT
                                   !.st_before = load_json_file(wn.file, fault),
                                   !.persisted = wn.file]]
    /\ WnKeep

\* the reader loads the cursor under its lock
WnLoad ==
    /\ wn.pc = "lock"
    /\ \E fault \in BOOLEAN :
         wn' = [wn EXCEPT !.pc = "chunk", !.c.state = load_json_file(wn.file, fault)]
    /\ WnKeep

\* the reader reads from the cursor's offset to the end, stamps the new cursor
\* with the current time and saves it; the cycle returns when no line is new
WnRead ==
    /\ wn.pc = "chunk"
    /\ \E read_fault \in BOOLEAN, save_fault \in BOOLEAN :
         LET off == IntField(wn.c.state, K_offset)
             offset == IF off.val > Len(wn.log) THEN 0 ELSE off.val
             lines == SubSeq(wn.log, offset + 1, Len(wn.log))
             ok == off.ok /\ ~read_fault
             c1 == IF ok THEN [wn.c EXCEPT !.lines = lines, !.read = TRUE,
                                            !.read_at = wn.clock]
                   ELSE wn.c
             file1 == IF ok /\ ~save_fault
                      THEN FileOf(json_dumps(new_state(1, Len(wn.log), wn.clock)))
                      ELSE wn.file
         IN  IF ok /\ lines # << >>
             THEN wn' = [wn EXCEPT !.pc = "parse", !.c = c1, !.file = file1]
             ELSE wn' = [wn EXCEPT !.pc = "idle", !.c = NoWindow, !.file = file1,
                                   !.cycles = @ + 1,
                                   !.earlier = [ran |-> TRUE, read |-> c1.read,
                                                read_at |-> c1.read_at,
                                                built |-> FALSE, until |-> 0]]
    /\ WnKeep

\* the cycle returns when no line is a ban; otherwise it takes until and
\* since and hands every parsed event to the builder
WnBuild ==
    /\ wn.pc = "parse"
    /\ IF \E i \in 1..Len(wn.c.lines) : wn.c.lines[i].action = "Ban"
       THEN LET until == wn.clock
                since == since_of(wn.c.st_before, until)
            IN  wn' = [wn EXCEPT !.pc = "built",
                                 !.call = Call(wn.c.lines, since, until)]
       ELSE wn' = [wn EXCEPT !.pc = "idle", !.c = NoWindow, !.cycles = @ + 1,
                             !.earlier = Earlier(FALSE)]
    /\ WnKeep

\* the report is sent and the cycle ends
WnReturn ==
    /\ wn.pc = "built"
    /\ wn' = [wn EXCEPT !.pc = "idle", !.c = NoWindow, !.call = NoCall,
                         !.cycles = @ + 1, !.earlier = Earlier(TRUE)]
    /\ WnKeep

\* f2b_digest_cb: the last day of the tail of the log
WnDigestCmd ==
    /\ wn.pc = "idle"
    /\ LET until == wn.clock
           since == until - DaySeconds
       IN  wn' = [wn EXCEPT !.pc = "cmd",
                            !.cmd = Call(in_window(wn.log, since, until), since, until)]
    /\ WnKeep

\* the report replaces the message and the handler ends
WnCmdReturn ==
    /\ wn.pc = "cmd"
    /\ wn' = [wn EXCEPT !.pc = "idle", !.cmd = NoCall]
    /\ WnKeep

\* the cursor files the job can start with: none, one with a time that does
\* not parse, one written by the reader
OddDateText ==
    json_dumps(JObj(<< <<K_inode, JInt(1)>>, <<K_offset, JInt(0)>>,
                       <<K_updated_at, JStr(<<"x">>)>> >>))
WindowCursorFiles ==
    {NoFile, FileOf(OddDateText), FileOf(json_dumps(new_state(1, 0, 0)))}

InitWindow ==
    /\ ReaderIdle /\ ParserIdle /\ RtIdle /\ BdIdle /\ DgIdle /\ DvIdle /\ UsIdle /\ PkIdle
    /\ wn \in {[pc |-> "idle", clock |-> DaySeconds + 1, ticks |-> 0, log |-> log,
                file |-> file, c |-> NoWindow, earlier |-> NoEarlier,
                call |-> NoCall, cmd |-> NoCall, cycles |-> 0] :
               log \in {<< >>, <<Stamped(0, "Ban")>>, <<Stamped(0, "Unban")>>},
               file \in WindowCursorFiles}

WindowNext ==
    \/ \E d \in {PadSeconds, DaySeconds} : WnTick(d)
    \/ WnAppend
    \/ WnLoadBefore
    \/ WnLoad
    \/ WnRead
    \/ WnBuild
    \/ WnReturn
    \/ WnDigestCmd
    \/ WnCmdReturn

SpecWindow == InitWindow /\ [][WindowNext]_vars

\* ------------------------------------------------------------------------
\* Properties of the reader and the cursor store
\* ------------------------------------------------------------------------
\* the cycle of p has reached its return
AtReturn(p) == pc[p] = "ret"
\* nothing of the environment disturbed the cycle: no I/O failed, and the log
\* was not modified after the cycle's stat
Quiet(L) == ~L.fault /\ ~L.raced
\* the offset of the cursor a cycle loaded
LoadedOffset(L) == IntField(L.st, K_offset).val

\* C1 as claimed (idempotent resumption): when a read cycle follows another
\* and the log has not been modified since that earlier cycle stat-ed it, this
\* cycle returns no lines, and the persisted cursor offset is the one the
\* earlier cycle left.
C1_IdempotentResumption ==
    \A p \in Procs :
        (AtReturn(p) /\ hist.settled /\ Quiet(loc[p]))
            => /\ ~loc[p].raised
               /\ loc[p].lines = << >>
               /\ PersistedOffset(stateFile) = LoadedOffset(loc[p])

\* the inode field of the cursor a cycle loaded is a nonzero integer
StoredInodeNonzero(L) ==
    Get(L.st, K_inode, JNull).t = "int" /\ Get(L.st, K_inode, JNull).v # 0

\* C2 as claimed (rotation detection): when the stored cursor holds a nonzero
\* inode and the log has another inode, the reader reads from offset 0 of the
\* new file and persists a cursor that carries the new inode.
C2_RotationReadsFromStart ==
    \A p \in Procs :
        (/\ impl = "svc" /\ AtReturn(p) /\ Quiet(loc[p]) /\ ~loc[p].nolog
         /\ StoredInodeNonzero(loc[p])
         /\ logInode # Get(loc[p].st, K_inode, JNull).v)
            => /\ ~loc[p].raised
               /\ loc[p].did_read /\ loc[p].offset = 0
               /\ loc[p].saved /\ PersistedInode(stateFile) = logInode

\* the cycle of p read the log after finding it shorter than the stored offset
Truncated(L) ==
    L.did_read /\ ~(L.last_inode # 0 /\ L.inode # L.last_inode) /\ L.stored > L.size

\* C3 as claimed (truncation detection): a stored offset beyond the size of
\* the same file makes the reader read the file from its first byte.
C3_TruncationReadsFromStart ==
    \A p \in Procs :
        (impl = "svc" /\ AtReturn(p) /\ Truncated(loc[p])) => loc[p].offset = 0

\* C3 amended (both programs): a stored offset beyond the size of the same file is discarded;
\* the reader starts at 0, or at size - max_read_bytes when the file is larger
\* than max_read_bytes; if the log is not modified during the cycle, the
\* persisted offset is at most the file size.
C3_TruncationDiscardsOffset ==
    \A p \in Procs :
        (AtReturn(p) /\ Truncated(loc[p]))
            => /\ loc[p].offset =
                    (IF loc[p].size > MaxReadBytes THEN loc[p].size - MaxReadBytes ELSE 0)
               /\ (loc[p].saved /\ ~loc[p].raced)
                    => PersistedOffset(stateFile) <= loc[p].size

\* a truncated log with content, read from its first byte, cursor saved
C3_Witness ==
    \E p \in Procs :
        /\ AtReturn(p) /\ Truncated(loc[p]) /\ loc[p].saved
        /\ loc[p].offset = 0 /\ loc[p].nread > 0

\* the stored offset after the rotation and truncation rules, as the claim
\* states them
OffsetAfterResets(L) ==
    IF L.last_inode # 0 /\ L.inode # L.last_inode THEN 0
    ELSE IF L.stored > L.size THEN 0
    ELSE L.stored

\* the cycle of p has computed the position it reads from
HasStart(p) ==
    \/ pc[p] \in {"read", "save", "replace", "write"}
    \/ pc[p] = "ret" /\ loc[p].did_read

\* C4 as claimed (backlog cap): a cycle whose unread backlog exceeds
\* max_read_bytes starts reading at size - max_read_bytes, every other cycle
\* at the (possibly reset) stored offset, and no cycle reads more than
\* max_read_bytes bytes.
C4_BacklogCapExact ==
    \A p \in Procs :
        (impl = "svc" /\ HasStart(p))
            => /\ loc[p].offset =
                    (IF loc[p].size - OffsetAfterResets(loc[p]) > MaxReadBytes
                     THEN loc[p].size - MaxReadBytes
                     ELSE OffsetAfterResets(loc[p]))
               /\ loc[p].nread <= MaxReadBytes

\* C4 amended (both programs): a cycle whose unread backlog exceeds max_read_bytes starts
\* reading at size - max_read_bytes, or at 0 when the file is shorter than
\* max_read_bytes; every other cycle at the (possibly reset) stored offset;
\* no cycle reads more than max_read_bytes bytes.
C4_BacklogCap ==
    \A p \in Procs :
        HasStart(p)
            => /\ loc[p].offset =
                    (IF loc[p].size - OffsetAfterResets(loc[p]) > MaxReadBytes
                     THEN Max(0, loc[p].size - MaxReadBytes)
                     ELSE OffsetAfterResets(loc[p]))
               /\ loc[p].nread <= MaxReadBytes
               /\ Len(loc[p].lines) <= MaxReadBytes

\* a cycle whose backlog, counted from a negative stored offset, exceeded
\* max_read_bytes on a file shorter than that: it read the file from byte 0
C4_Witness ==
    \E p \in Procs :
        /\ AtReturn(p) /\ loc[p].did_read /\ loc[p].saved
        /\ loc[p].stored < 0
        /\ loc[p].size > 0 /\ loc[p].size < MaxReadBytes
        /\ loc[p].size - OffsetAfterResets(loc[p]) > MaxReadBytes
        /\ loc[p].offset = 0 /\ loc[p].nread = loc[p].size

\* C5 as claimed (crash-safe cursor write): after the process is killed, the
\* cursor file is the complete document it held before the save in progress
\* began, or the complete document of that save.
C5_CrashSafeCursorWrite == down => stateFile \in {docs.prev, docs.new}

\* C6 (serialized cursor access): at most one invocation of
\* read_fail2ban_new_lines_async is between taking the lock and returning; the
\* cursor it is about to replace is still the one it loaded; and while the
\* log is only appended to and no I/O fails, no byte of the log is read by two
\* invocations.
C6_SerializedCursorAccess ==
    impl = "svc" =>
        /\ Cardinality({p \in Procs : pc[p] \notin {"idle", "wait"}}) <= 1
        /\ \A p \in Procs :
            (pc[p] \in {"save", "replace"} /\ ~loc[p].fault)
                => /\ PersistedOffset(stateFile) = LoadedOffset(loc[p])
                   /\ PersistedInode(stateFile) = IntField(loc[p].st, K_inode).val
        /\ ~hist.dup

\* one invocation waits for the lock while the other replaces the cursor,
\* having read the bytes that follow those an earlier invocation read
C6_Witness ==
    /\ impl = "svc" /\ hist.clean
    /\ pc[1] = "wait" /\ pc[2] = "replace" /\ lock = 2
    /\ loc[2].offset > 0 /\ loc[2].nread > 0
    /\ (loc[2].offset - 1) \in hist.covered

\* a cursor file the reader can resume from
WellFormedCursor(file) ==
    /\ file.exists
    /\ LET r == json_loads(file.data)
       IN  /\ r.ok /\ r.val.t = "obj"
           /\ Get(r.val, K_inode, JNull).t = "int"
           /\ Get(r.val, K_offset, JNull).t = "int"
           /\ Get(r.val, K_offset, JNull).v >= 0

\* C7 as claimed (a corrupt cursor never blocks digesting): whatever the
\* cursor file holds, a cycle on an existing log, in which no I/O fails and
\* the log is not modified, returns without raising and leaves a well-formed
\* cursor.
C7_CorruptCursorNeverBlocks ==
    \A p \in Procs :
        (impl = "svc" /\ AtReturn(p) /\ ~loc[p].nolog /\ Quiet(loc[p]))
            => /\ ~loc[p].raised
               /\ loc[p].nread <= MaxReadBytes
               /\ loc[p].saved
               /\ WellFormedCursor(stateFile)

\* the cursor file holds no JSON object (or no file is there)
NoObject(file) ==
    \/ ~file.exists
    \/ ~json_loads(file.data).ok
    \/ json_loads(file.data).val.t # "obj"

\* C8 (cursor load is total): right after the load, the loaded document is a
\* dict; it is the empty dict when the cursor file is absent, unreadable, not
\* JSON or not a JSON object, and the reader takes inode 0 and offset 0 from it.
C8_CursorLoadTotal ==
    \A p \in Procs :
        pc[p] = "stat"
            => /\ loc[p].st.t = "obj"
               /\ (NoObject(stateFile) \/ loc[p].fault)
                    => /\ Len(loc[p].st.v) = 0
                       /\ IntField(loc[p].st, K_offset) = [ok |-> TRUE, val |-> 0]
                       /\ IntField(loc[p].st, K_inode) = [ok |-> TRUE, val |-> 0]

\* the load of a cursor file that holds JSON, but no object
C8_Witness ==
    \E p \in Procs :
        /\ pc[p] = "stat" /\ ~loc[p].fault
        /\ stateFile.exists /\ json_loads(stateFile.data).ok
        /\ json_loads(stateFile.data).val.t = "list"
        /\ loc[p].st = EmptyDoc

\* ------------------------------------------------------------------------
\* Properties of the persistence round trip and of the parser
\* ------------------------------------------------------------------------
\* C9 (cursor persistence round trip): the document loaded after a save holds
\* the inode, the offset and the updated_at that were saved.
C9_CursorRoundTrip ==
    rt.pc = "loaded"
        => /\ rt.out.t = "obj"
           /\ Len(rt.out.v) = 3
           /\ Get(rt.out, K_inode, JNull) = JInt(rt.inode)
           /\ Get(rt.out, K_offset, JNull) = JInt(rt.offset)
           /\ Get(rt.out, K_updated_at, JNull).t = "str"
           /\ Get(rt.out, K_updated_at, JNull).v = isoformat(rt.t)
           /\ IntField(rt.out, K_inode) = [ok |-> TRUE, val |-> rt.inode]
           /\ IntField(rt.out, K_offset) = [ok |-> TRUE, val |-> rt.offset]

\* the cursor {inode: 42, offset: 100} of the spec's example, loaded back
C9_Witness ==
    /\ rt.pc = "loaded" /\ rt.inode = 42 /\ rt.offset = 100
    /\ IntField(rt.out, K_offset).val = 100

RecognizedActions == {"Ban", "Unban", "Restore Ban", "Jail started", "Jail stopped"}

\* the message begins with one of the five recognized action phrases
HasActionPhrase(msg) ==
    \E pre \in {S_Ban, S_Unban, S_RestoreBan, S_JailStarted, S_JailStopped} :
        StartsWith(msg, pre)

WellFormedEvents(events, lines_in) ==
    /\ Len(events) <= Len(lines_in)
    /\ \A i \in 1..Len(events) :
        /\ events[i].ts.ok
        /\ events[i].action \in RecognizedActions
    /\ (\A k \in 1..Len(lines_in) : ~HasActionPhrase(lines_in[k].msg)) => events = << >>

\* C10 as claimed (parser total onto recognized events): each
\* parse_fail2ban_events returns, for a line, no event or one event with a
\* timestamp and one of the five recognized actions, and no event for a
\* message that begins with none of the recognized phrases.
C10_ParserTotal ==
    /\ pPc \in {"svc", "out"} => WellFormedEvents(pOut.svc, pLines)
    /\ pPc = "out" => WellFormedEvents(pOut.main, pLines)

\* ------------------------------------------------------------------------
\* Properties of the digest: scheduler, reader, parser and builder together
\* ------------------------------------------------------------------------
\* the cycle of p found no log: it is missing, or its stat failed
FoundNoLog(p) == pc[p] = "ret" /\ loc[p].nolog

\* C14: whenever the log file does not exist, or cannot be stat-ed, at the
\* time of a read cycle, the cycle returns no line and no step of it changes
\* the cursor file.
C14_MissingLogLeavesCursor ==
    [][\A p \in Procs :
         (FoundNoLog(p) \/ FoundNoLog(p)') =>
             /\ stateFile' = stateFile
             /\ (FoundNoLog(p)' => loc'[p].lines = << >> /\ ~loc'[p].saved)]_vars

\* a cycle that finds no log while a cursor with a positive offset is stored
C14_Witness ==
    \E p \in Procs :
        /\ FoundNoLog(p)
        /\ ~logExists
        /\ stateFile # NoFile
        /\ PersistedOffset(stateFile) > 0

\* the lines a report shows, whole or in part
ShownLines(report) ==
    report.lines \o [i \in 1..Len(report.part) |-> report.part[i].line]

\* the per-jail cap as the report of a list of events shows it for one jail
CapShown(events, report, jail) ==
    LET bans == JailBans(events, jail)
        n == Len(bans)
        shown == SelectSeq(ShownLines(report), LAMBDA l : l.k = "ban" /\ l.jail = jail)
        markers == SelectSeq(ShownLines(report), LAMBDA l : l.k = "more" /\ l.jail = jail)
        hours == {bans[i].ts.val : i \in 1..n}
    IN  /\ Len(shown) = Min(n, DigestCap)
        /\ IF n > DigestCap THEN Len(markers) = 1 /\ markers[1].n = n - DigestCap
           ELSE markers = << >>
        /\ \A i \in 1..(Len(shown) - 1) : shown[i].ts.val <= shown[i + 1].ts.val
        /\ \A h \in hours :
             Cardinality({i \in 1..Len(shown) : shown[i].ts.val >= h})
               = Min(DigestCap, Cardinality({i \in 1..n : bans[i].ts.val >= h}))

JailsOf(events) == {events[i].jail : i \in 1..Len(events)}

\* C15 as claimed (per-jail cap): for every jail with n ban-type events the
\* report shows exactly min(n, 20) ban lines, the 20 of greatest timestamp in
\* ascending order, and a marker carrying n - 20 exactly when n > 20.
C15_PerJailCapAlways ==
    bd.pc = "built" => \A jail \in JailsOf(bd.events) : CapShown(bd.events, bd.out, jail)

\* C15: the per-jail cap holds of every report whose rendered text is at
\* most 3800 characters long, that is, of every report that is not
\* hard-truncated.
C15_PerJailCap ==
    bd.pc = "built" /\ ~bd.out.cut =>
        \A jail \in JailsOf(bd.events) : CapShown(bd.events, bd.out, jail)

\* a report that is not truncated, of a jail with more than 20 bans supplied
\* newest first and a jail with exactly 20
C15_Witness ==
    /\ bd.pc = "built" /\ bd.fam = "cap" /\ ~bd.out.cut
    /\ Len(JailBans(bd.events, J_sshd)) > DigestCap
    /\ Len(JailBans(bd.events, J_nginx)) = DigestCap
    /\ bd.events[1].ts.val > bd.events[2].ts.val
    /\ \E i \in 1..Len(bd.out.lines) : bd.out.lines[i].k = "more"

\* the ban events of one jail and one timestamp, in the order supplied
Ties(events, e) ==
    SelectSeq(events, LAMBDA x : x.action \in BanActions /\ x.jail = e.jail /\ x.ts = e.ts)
SameTieOrder(a, b) == \A i \in 1..Len(a) : Ties(a, a[i]) = Ties(b, a[i])

\* C16 as claimed (digest determinism): the same events supplied in any two
\* orders give byte-identical reports.
C16_AnyOrderSameReport ==
    bd.pc = "built" /\ bd.fam = "perm" => bd.out = bd.out2

\* C16: the same events supplied in two orders that agree on the relative
\* order of the ban events of one jail with equal timestamps give
\* byte-identical reports.
C16_DigestDeterminism ==
    bd.pc = "built" /\ bd.fam = "perm" /\ SameTieOrder(bd.events, bd.events2)
        => bd.out = bd.out2

\* two different orders of events that include two bans of equal timestamp
C16_Witness ==
    /\ bd.pc = "built" /\ bd.fam = "perm"
    /\ bd.events # bd.events2
    /\ SameTieOrder(bd.events, bd.events2)
    /\ \E i \in 1..Len(bd.events) : Len(Ties(bd.events, bd.events[i])) = 2
    /\ bd.out = bd.out2

\* the message of a line is a Ban or a Restore Ban, an Unban
IsBanMessage(msg) ==
    LET ws == WordsFrom(msg, 1, << >>)
    IN  \/ Len(ws) >= 1 /\ ws[1] = W_Ban
        \/ Len(ws) >= 2 /\ ws[1] = W_Restore /\ ws[2] = W_Ban
IsUnbanMessage(msg) ==
    LET ws == WordsFrom(msg, 1, << >>) IN Len(ws) >= 1 /\ ws[1] = W_Unban

\* the number a report prints on the line of the given kind of a jail
Printed(report, kind, jail) ==
    LET ls == SelectSeq(report.lines, LAMBDA l : l.k = kind /\ l.jail = jail)
    IN  IF ls = << >> THEN 0 ELSE ls[1].n

\* the lines of a jail that match the line shape, carry a date, and whose
\* message satisfies P
LinesWith(lines, jail, P(_)) ==
    Cardinality({i \in 1..Len(lines) :
        /\ lines[i].shape /\ f2b_parse_time(lines[i].ts).ok
        /\ lines[i].jail = jail /\ P(lines[i].msg)})

\* C17 as claimed (end-to-end counting): parsing followed by the builder
\* reports, for each jail, as many bans as the jail has lines whose message
\* is a Ban or Restore Ban, as many unbans as it has Unban lines, and one ban
\* line for each ban.
C17_EndToEndCounts ==
    bd.pc = "built" /\ bd.fam = "lines" =>
        \A jail \in {J_sshd, J_nginx} :
            /\ Printed(bd.out, "bans", jail) = LinesWith(bd.lines, jail, IsBanMessage)
            /\ Printed(bd.out, "unbans", jail) = LinesWith(bd.lines, jail, IsUnbanMessage)
            /\ Len(SelectSeq(bd.out.lines, LAMBDA l : l.k = "ban" /\ l.jail = jail))
                 = LinesWith(bd.lines, jail, IsBanMessage)

\* no event of the list is a Ban or a Restore Ban
NoBanIn(events) == \A i \in 1..Len(events) : events[i].action \notin BanActions

\* C11: in every scheduled cycle in which the reader yields no line, or the
\* parsed events hold no Ban and no Restore Ban, the cycle never reaches the
\* sender and hands it no message.
C11_SuppressionRule ==
    (dg.c.lines = << >> \/ NoBanIn(parse_fail2ban_events(dg.c.lines))) =>
        dg.pc # "send" /\ dg.c.handed = 0 /\ dg.c.delivered = 0

\* a cycle that read an Unban record and nothing else has ended, silent
C11_Witness ==
    /\ dg.pc = "done" /\ ~dg.c.failed
    /\ dg.c.lines = <<<<"h", "U">>>>
    /\ Len(dg.c.events) = 1 /\ dg.c.events[1].action = "Unban"
    /\ dg.c.handed = 0

\* C12 as claimed (restart catch-up): after every process start one digest
\* cycle is triggered shortly after the start and independently of the
\* daily timer: once the one-shot jobs registered at start have run, and
\* before the daily timer has fired, exactly one cycle has been started.
C12_RestartCatchUp ==
    ~down /\ dg.boot = "done" /\ ~dg.daily => dg.runs = 1

\* C13: a scheduled cycle in which an exception is raised ends at the
\* return of fail2ban_daily_digest with FAIL2BAN_STATE_LOCK free, and the
\* cycle that waits for the lock after a failed one finds it free.
C13_FailureContainment ==
    /\ dg.c.failed => dg.pc = "done" /\ lock = 0
    /\ dg.failures /\ dg.pc = "wait" => lock = 0

\* with a cursor file whose offset int() rejects, the reader of the first
\* cycle raised inside the lock, and the second cycle holds the lock
C13_Witness ==
    /\ impl = "svc" /\ ~down /\ dg.restarts = 0
    /\ logExists /\ stateFile = FileOf(StrOffsetText)
    /\ dg.failures /\ dg.cycles = 2
    /\ dg.pc = "read" /\ lock = 1

\* C18: when the log exists and cannot be opened for lack of permission, the
\* ad-hoc tail and digest requests reply with the permission category and no
\* report, a missing log gives the not-found category, and a scheduled cycle
\* that meets the permission error raises nothing, returns no line and sends
\* nothing.
C18_PermissionDistinguished ==
    /\ dg.reply.found = "unreadable" =>
          dg.reply.cat = "no_permission" /\ dg.reply.report = NoReport
    /\ dg.reply.found = "missing" => dg.reply.cat = "not_found"
    /\ dg.c.denied =>
          /\ ~dg.c.raised /\ ~dg.c.failed
          /\ dg.c.lines = << >>
          /\ dg.pc \in {"release", "parse", "done"}
          /\ dg.c.handed = 0

\* the digest request has replied about an unreadable log, and a scheduled
\* cycle over it has ended
C18_Witness ==
    /\ logExists /\ ~dg.readable /\ logData # << >>
    /\ dg.reply.by = "digest" /\ dg.reply.cat = "no_permission"
    /\ dg.pc = "done" /\ dg.c.denied

\* C19 as claimed (partial trailing line): no read cycle returns a part of a
\* record as if it were a line: every line a cycle returns is a whole record
\* of the log.
C19_NoFragmentReturned ==
    \A i \in 1..Len(dg.c.lines) : MatchLine(dg.c.lines[i]).shape

\* C20 as claimed (no silent loss of consumed bans): a scheduled cycle that
\* has advanced the cursor past a line that parses to a Ban or Restore Ban
\* ends with its digest handed to the sender for at least one administrator.
C20_ConsumedBansAreSent ==
    dg.pc = "done" /\ dg.c.advanced /\ ~NoBanIn(parse_fail2ban_events(dg.c.lines))
        => dg.c.handed >= 1

\* ------------------------------------------------------------------------
\* Properties of the parsers' dispatch and of the builder's final cap
\* ------------------------------------------------------------------------
\* the action phrases in the order of the dispatch, each with its action
Dispatch ==
    <<<<S_Ban, "Ban">>, <<S_Unban, "Unban">>, <<S_RestoreBan, "Restore Ban">>,
      <<S_JailStarted, "Jail started">>, <<S_JailStopped, "Jail stopped">>>>

\* the action the dispatch by prefix gives a message, "" when no phrase begins it
PrefixAction(msg) ==
    LET hits == {k \in 1..Len(Dispatch) : StartsWith(msg, Dispatch[k][1])}
    IN  IF hits = {} THEN ""
        ELSE Dispatch[CHOOSE k \in hits : \A j \in hits : k <= j][2]

\* the events of a line that matches, with a date, and whose message begins
\* with an action phrase: one event, with the action of that phrase
DispatchedByPrefix(events, lines_in) ==
    \A k \in 1..Len(lines_in) :
        (/\ lines_in[k].shape /\ f2b_parse_time(lines_in[k].ts).ok
         /\ PrefixAction(lines_in[k].msg) # "")
            => /\ Len(events) = 1
               /\ events[1].action = PrefixAction(lines_in[k].msg)

\* C22 as claimed (message-prefix dispatch): in both parse_fail2ban_events
\* the action of an event is the one of the first of the phrases "Ban ",
\* "Unban ", "Restore Ban ", "Jail started", "Jail stopped" that begins the
\* message, so each of the five kinds of message gets its own action.
C22_PrefixDispatch ==
    /\ pPc \in {"svc", "out"} => DispatchedByPrefix(pOut.svc, pLines)
    /\ pPc = "out" => DispatchedByPrefix(pOut.main, pLines)

\* ------------------------------------------------------------------------
\* Properties of the final cap of the builder
\* ------------------------------------------------------------------------
\* len("\n… (обрезано из-за лимита Telegram)")
NoticeLen == 35

\* the lines of "\n".join(lines) before the cap is applied
Rendered(events) ==
    LET body == Sections(events, sorted_keys({events[i].jail : i \in 1..Len(events)}))
        header == RLine("header", << >>, 0, 0, NoEv)
    IN  IF body = << >> THEN <<header, RLine("none", << >>, 0, 0, NoEv)>>
        ELSE <<header>> \o body

\* no text a report stands for is longer than this: its whole lines, the
\* newline after them and the kept part of the next line, and the notice
ReportLenBound(report) ==
    EndOf(report.lines, Len(report.lines))
    + (IF report.part # << >> THEN 1 + report.part[1].keep
       ELSE IF report.cut THEN 1 ELSE 0)
    + (IF report.cut THEN NoticeLen ELSE 0)

\* the report holds the first c characters of "\n".join(full) and no more:
\* the lines that end at or before c, and of the next line the characters
\* that lie before c
FirstChars(report, full, c) ==
    LET n == Len(report.lines)
    IN  /\ n < Len(full)
        /\ report.lines = SubSeq(full, 1, n)
        /\ EndOf(full, n) <= c
        /\ EndOf(full, n + 1) > c
        /\ IF c - EndOf(full, n) - 1 > 0
           THEN report.part = <<[line |-> full[n + 1], keep |-> c - EndOf(full, n) - 1]>>
           ELSE report.part = << >>

Capped(report, events) ==
    LET full == Rendered(events)
    IN  /\ ReportLenBound(report) <= ReportCeiling
        /\ IF EndOf(full, Len(full)) > ReportCeiling
           THEN report.cut /\ FirstChars(report, full, ReportCut)
           ELSE report = Report(full, << >>, FALSE)

\* C25 (final safety cap): the text build_fail2ban_digest_text returns is at
\* most 3800 characters long; when the rendered text is longer than 3800
\* characters the result is its first 3700 characters followed by the
\* truncation notice, and otherwise it is the rendered text unmodified.
C25_FinalCap ==
    bd.pc = "built" => Capped(bd.out, bd.events) /\ Capped(bd.out2, bd.events2)

\* a report of three jails whose rendered text is longer than 3800
\* characters, cut inside a line
C25_Witness ==
    /\ bd.pc = "built" /\ bd.fam = "cap"
    /\ EndOf(Rendered(bd.events), Len(Rendered(bd.events))) > ReportCeiling
    /\ bd.out.cut /\ bd.out.part # << >>
    /\ ReportLenBound(bd.out) = ReportCut + NoticeLen


\* ------------------------------------------------------------------------
\* Properties of the writers of the cursor file
\* ------------------------------------------------------------------------
\* the step is the reader's: stat, read and save inside read_fail2ban_new_lines
ReaderStep == dg.pc = "read" /\ dg'.pc # "read"

\* the cursor file is written in this step (every cursor written carries
\* the time of its read, so a write changes the file)
CursorWritten == stateFile' # stateFile

\* C26 as claimed (single writer, once per cycle): the cursor file is
\* written only by the reader, in every invocation that completes a read
\* and in no other; the ad-hoc tail and digest requests and the scheduler's
\* steps after the read leave it unchanged.
C26_WrittenOncePerRead ==
    [][/\ CursorWritten => ReaderStep
       /\ ReaderStep => (CursorWritten <=> dg'.c.read)]_vars

\* C26: the cursor file is written only by the reader, at most once in an
\* invocation that completes a read, exactly once when its save succeeds,
\* and not at all in an invocation that returns without reading; the ad-hoc
\* tail and digest requests and the scheduler's steps after the read leave
\* it unchanged.
C26_SingleWriter ==
    [][/\ CursorWritten => ReaderStep /\ dg'.c.read
       /\ ReaderStep /\ dg'.c.read /\ ~dg'.c.save_failed => CursorWritten]_vars

\* a cycle has read the log to its end and saved its cursor, and an ad-hoc
\* digest request has been answered with a report
C26_Witness ==
    /\ dg.pc = "parse" /\ dg.c.read /\ dg.c.advanced /\ dg.c.lines # << >>
    /\ dg.reply.by = "digest" /\ dg.reply.cat = "report"
    /\ PersistedOffset(stateFile) = Len(logData)

\* ------------------------------------------------------------------------
\* Properties of what the read cycles deliver
\* ------------------------------------------------------------------------
\* C27 (exactly-once byte delivery): over a log that is only appended to,
\* with cycles that all succeed and save their cursor, none with a backlog
\* above max_bytes, and with kills only between cycles, each cycle starts
\* where the one before ended and the bytes read by the cycles, in order,
\* are the bytes of the log from the first start offset to the last end
\* offset.
C27_ExactlyOnce ==
    dv.ok /\ dv.n > 0 =>
        /\ ~dv.skew
        /\ dv.last <= Len(logData)
        /\ dv.got = SubSeq(logData, dv.first + 1, dv.last)

\* two cycles with a restart of the process between them have read two
\* bytes or more
C27_Witness ==
    /\ dv.ok /\ dv.re /\ dv.n >= 2 /\ Len(dv.got) >= 2
    /\ pc[1] = "idle" /\ ~down

\* C28 as claimed (cursor bounds): a cursor that a cycle has persisted holds
\* an offset between 0 and the size the log had when it was read, and the
\* inode of the file that was read, whatever the log's writers did between
\* the cycle's stat and its read.
C28_CursorBounds ==
    pc[1] = "ret" /\ loc[1].saved =>
        /\ 0 <= PersistedOffset(stateFile)
        /\ PersistedOffset(stateFile) <= dv.rsize
        /\ PersistedInode(stateFile) = loc[1].read_inode

\* a cycle of the package has read the log and its save has failed
SaveFailed == impl = "svc" /\ pc[1] = "ret" /\ loc[1].did_read /\ ~loc[1].saved

\* nothing is raised, the lines read are returned and the cursor file is
\* the one the cycle began with
Swallowed ==
    SaveFailed => /\ ~loc[1].raised
                  /\ loc[1].lines = dv.rlines
                  /\ stateFile = dv.at

\* the cycle that ends here starts where the cycle before started and
\* returns the lines that one returned
SameAgain ==
    /\ loc[1].did_read
    /\ loc[1].offset = dv.prev.offset
    /\ loc[1].lines = dv.prev.lines

\* C30 as claimed (cursor save failure is swallowed): a failed save raises
\* nothing, the lines are returned and the cursor file keeps its content;
\* the next cycle starts from the old offset and returns those lines again.
C30_NextCycleRepeats ==
    /\ Swallowed
    /\ impl = "svc" /\ pc[1] = "ret" /\ dv.prev.failed => SameAgain

\* the cycle before read the log after loading the cursor file without
\* error and its save failed; the log has not changed since the stat of
\* that cycle; the cycle that ends here has loaded the cursor file and read
\* the log without error
Repeatable ==
    /\ impl = "svc" /\ pc[1] = "ret"
    /\ dv.prev.failed /\ dv.prev.loaded /\ dv.prev.quiet
    /\ dv.fresh /\ loc[1].did_read
    /\ loc[1].st = load_json_file(dv.at, FALSE)

\* C30: a failed save raises nothing, the lines are returned and the cursor
\* file keeps its content; the next cycle, if both cycles load the cursor
\* file without error, the next cycle reads the log without error and the
\* log has not changed since the failed cycle's stat, starts from the old
\* offset and returns those lines again.
C30_SaveFailureSwallowed ==
    /\ Swallowed
    /\ Repeatable => SameAgain

\* after a cycle whose save failed, the next cycle has read the same two
\* lines again
C30_Witness ==
    /\ Repeatable
    /\ Len(loc[1].lines) >= 1 /\ loc[1].nread = MaxReadBytes
    /\ SameAgain

\* ------------------------------------------------------------------------
\* Properties of the unlocked load of the cursor
\* ------------------------------------------------------------------------
\* the documents of the cursor files the load may meet
WholeDocs == {load_json_file(c, FALSE) : c \in pk.cands}

\* C29 (unlocked cursor reads see whole documents): a load of st_before that
\* no I/O error meets returns, whatever steps of another cycle's save fall
\* between its own, the whole document of the cursor file present at its
\* start or the whole document of a save in progress then or begun since;
\* never a part of one and never a mixture.
C29_WholeDocuments ==
    pk.pc = "done" /\ ~pk.fault => pk.seen \in WholeDocs

\* a load that began over the previous cursor has returned the cursor of a
\* save that was made during it
C29_Witness ==
    /\ pk.pc = "done" /\ ~pk.fault
    /\ Cardinality(pk.cands) = 2
    /\ FileOf(CursorText(1, 1)) \in pk.cands
    /\ pk.seen # load_json_file(FileOf(CursorText(1, 1)), FALSE)
    /\ pk.seen \in WholeDocs
    /\ IntField(pk.seen, K_offset).val = Len(logData)
    /\ Len(logData) > 1

\* ------------------------------------------------------------------------
\* Properties of the recipients of the scheduled digest
\* ------------------------------------------------------------------------
\* C24 (administrators only): every recipient a scheduled digest is sent
\* to is, when it is sent, a registered user with role admin who is enabled,
\* whatever registrations, role changes and toggles came before the cycle
\* resolved its recipients.
C24_AdminsOnly ==
    \A s \in us.sent :
        ~s.touched => s.was.in /\ s.was.role = "admin" /\ s.was.enabled

\* the second cycle of a run has sent to the one administrator and to
\* nobody else, while an enabled user of role user is registered
C24_Witness ==
    /\ us.pc = "idle" /\ us.cycles = 2 /\ ~us.touched
    /\ us.sent # {} /\ \A s \in us.sent : s.uid = 2
    /\ us.reg[1].in /\ us.reg[1].role = "user" /\ us.reg[1].enabled
    /\ us.reg[2].role = "admin"

\* ------------------------------------------------------------------------
\* Properties of the periods of the digests
\* ------------------------------------------------------------------------
\* every event of a call of the builder lies inside the call's period
InWindow(call) ==
    call.made =>
        \A i \in 1..Len(call.events) :
            call.since <= call.events[i].ts /\ call.events[i].ts <= call.until

\* C21: in every call of build_fail2ban_digest_text, by the command and by the
\* scheduled job, every event passed in has since <= ts <= until of that call
C21_CallersPreFilter == InWindow(wn.call) /\ InWindow(wn.cmd)

\* the command alone filters its events to its period
CmdPreFilters == InWindow(wn.cmd)

\* the step of a scheduled cycle that takes until and since and calls the builder
Building == wn.pc = "parse" /\ wn'.pc = "built"

\* since is the time of the cursor document doc less one second, one day
\* before until when doc carries no time
SinceFrom(doc) ==
    LET at == cursor_time(doc)
    IN  wn'.call.since = IF at.some THEN at.v - PadSeconds
                         ELSE wn'.call.until - DaySeconds

\* since is not later than the end of the earlier cycle's read, and not later
\* than the end of the earlier cycle's period
NoGap ==
    /\ wn.earlier.read => wn'.call.since <= wn.earlier.read_at
    /\ wn.earlier.built => wn'.call.since <= wn.earlier.until

\* C23 as stated: until is the current time, since comes from the cursor file
\* as it was before the cycle's read, and consecutive cycles leave no gap
C23_ScheduledWindow ==
    [][Building =>
         /\ wn'.call.until = wn.clock
         /\ SinceFrom(load_json_file(wn.c.persisted, FALSE))
         /\ NoGap]_vars

\* consecutive cycles leave no gap, whatever since was taken from
C23_NeverAGap == [][Building => NoGap]_vars

\* C23: in every scheduled cycle that builds a digest, until is the current
\* time and since is the updated_at of the cursor document the cycle loaded
\* before its read less one second when that is present and parses, otherwise
\* until less 24 hours; when since comes from the cursor it is not later than
\* the end of the earlier cycle's read and the periods leave no gap
C23_WindowFromLoaded ==
    [][Building =>
         /\ wn'.call.until = wn.clock
         /\ SinceFrom(wn.c.st_before)
         /\ cursor_time(wn.c.st_before).some => NoGap]_vars

\* a second cycle has built its digest from lines written after the first
\* one's read, with since taken from the cursor that the first one wrote, and
\* the first one had built a digest too
C23_Witness ==
    /\ wn.pc = "built"
    /\ wn.earlier.read /\ wn.earlier.built
    /\ cursor_time(wn.c.st_before).some
    /\ cursor_time(wn.c.st_before).v = wn.earlier.read_at
    /\ wn.call.since = wn.earlier.read_at - PadSeconds
    /\ wn.call.until > wn.earlier.until
    /\ \A i \in 1..Len(wn.c.lines) : wn.c.lines[i].ts >= wn.earlier.read_at

====
